---- MODULE Spec2Model ----
(***************************************************************************)
(* Model of the B-Roll Index analysis pipeline (analyze.js), its remote    *)
(* file upload and classification clients (lib/classify.js), the project   *)
(* data-access layer (lib/project.js) and the server's clip deletion       *)
(* route (server.js).                                                      *)
(*                                                                         *)
(* Conventions                                                             *)
(*  - scores are in tenths: brollScore 0.5 is 5, 1.0 is MaxScore;          *)
(*  - durations are in milliseconds, as in the source;                     *)
(*  - the string "vid_007" is modelled by the digit sequence <<0,0,7>>     *)
(*    that follows its fixed prefix, "clip_0012" by <<0,0,1,2>>, and the   *)
(*    preview file "clip_0012.gif" by the same digit sequence; a null      *)
(*    thumbnail is the empty sequence;                                     *)
(*  - one action per synchronous block of the source between two awaits,   *)
(*    an awaited call's result being chosen by the environment.            *)
(***************************************************************************)
EXTENDS Integers, Sequences, FiniteSets, TLC

\* ------------------------------------------------------------------ bounds

MaxRuns == 2        \* analysis runs (processes) started in one behaviour
MaxSegments == 2    \* segments the provider reports for one video
MaxScore == 10      \* largest brollScore, in tenths
MaxPolls == 2       \* status polls answered PROCESSING in one upload attempt
MaxClips == 2       \* clips handed to the verifier in one call
MaxTerms == 2       \* terms in one taxonomy list and in one segment's field
MaxVideos == 2      \* videos one run processes, when its remote operations are followed
MaxRequests == 4    \* POST analyze requests the server answers
MaxLogLines == 1    \* output chunks one child process writes
MaxTicks == 40      \* latest segment end given to tidyClipWindow, in ticks of 1/38 s

\* ----------------------------------------------------- program constants

DefaultMinScore == 5        \* analyze.js:205   taxonomy.minimumBrollScore || 0.5
VideoIdWidth == 3           \* analyze.js:61    padStart(3, "0")
ClipIdWidth == 4            \* analyze.js:216   padStart(4, "0")
MAX_RETRIES == 3            \* classify.js:169
UploadBackoffUnit == 5000   \* classify.js:229  5000 * attempt
ClassifyMaxTries == 3       \* classify.js:303  while (retries < 3)
ClassifyBackoffUnit == 5000 \* classify.js:329  5000 * (retries + 1)
RepickPause == 2000         \* classify.js:473  await sleep(2000)

Absent == -1    \* a field that is undefined in the JSON document
NaN == -2       \* parseInt's result on a string that is no number

\* the project folder's video files, in directory-listing order
DirListing == <<"a.mp4", "b.mp4">>

\* the scores the provider reports in a pipeline run
PipelineScores == {3, 7}

\* the minimumBrollScore settings a pipeline run starts from
PipelineMinScores == {Absent}

\* ---------------------------------------------------------- pure helpers

Max(S) == CHOOSE x \in S : \A y \in S : y <= x

Range(s) == {s[i] : i \in 1..Len(s)}

\* String(n): the decimal digits of n
RECURSIVE Digits(_)
Digits(n) == IF n < 10 THEN <<n>> ELSE Append(Digits(n \div 10), n % 10)

\* String.prototype.padStart(w, "0")
RECURSIVE padStart(_, _)
padStart(ds, w) == IF Len(ds) >= w THEN ds ELSE padStart(<<0>> \o ds, w)

\* parseInt(s, 10) on a digit string; NaN on the empty string
RECURSIVE parseInt(_)
parseInt(ds) ==
  IF ds = <<>> THEN NaN
  ELSE IF Len(ds) = 1 THEN ds[1]
  ELSE 10 * parseInt(SubSeq(ds, 1, Len(ds) - 1)) + ds[Len(ds)]

\* variant: the number of keys + 1
generateVideoIdByCount(existingIds) ==
  padStart(Digits(Cardinality(DOMAIN existingIds) + 1), VideoIdWidth)

\* analyze.js generateVideoId: max numeric suffix of the keys + 1, or 1
generateVideoId(existingIds) ==
  LET nums == {parseInt(k) : k \in DOMAIN existingIds} \ {NaN}
      next == IF nums # {} THEN Max(nums) + 1 ELSE 1
  IN  padStart(Digits(next), VideoIdWidth)

\* analyze.js generateClipId: max numeric suffix of the clips' ids + 1, or 1
generateClipId(existingClips) ==
  LET nums == {parseInt(existingClips[i].id) : i \in 1..Len(existingClips)} \ {NaN}
  IN  IF nums # {} THEN Max(nums) + 1 ELSE 1

\* `clip_${String(n).padStart(4, "0")}`
clipIdOf(n) == padStart(Digits(n), ClipIdWidth)

\* JavaScript truthiness of a number-or-undefined value
Truthy(x) == x # Absent /\ x # 0

\* analyze.js:205  const minScore = taxonomy.minimumBrollScore || 0.5
minScoreOf(tax) ==
  IF Truthy(tax.minimumBrollScore) THEN tax.minimumBrollScore ELSE DefaultMinScore

\* analyze.js:206  segments.filter((s) => s.brollScore >= minScore)
filterByScore(segs, minScore) ==
  SelectSeq(segs, LAMBDA s : s.brollScore >= minScore)

\* the provider's possible answers: up to MaxSegments segments
SegmentsOver(scores) ==
  UNION {[1..n -> [brollScore : scores]] : n \in 0..MaxSegments}

\* ------------------------------------------------------------------ state

VARIABLES
  \* the project's persisted state (.broll-index/)
  diskIndex,        \* index.json: [videos: id -> [filename], clips: sequence]
  thumbs,           \* thumbnails/: preview file name -> the run that wrote it
  taxonomy,         \* taxonomy.json: [minimumBrollScore]
  \* the analysis process (analyze.js main)
  run,              \* number of analysis processes started so far
  pc,               \* position of the running process, or how the last ended
  exitCode,         \* exit status of the last process that ended by itself
  videoFiles,       \* the videos this run processes
  v,                \* loop variable (1-based)
  index,            \* the in-memory index
  clipIdCounter,    \* number of the next clip id
  videoId,          \* of the video in progress
  uploadedFileName, \* <<>> is null
  segments,         \* what classifyVideo returned for the video in progress
  goodSegments,     \* the segments that passed the score filter
  clips,            \* the clips built for the video in progress
  \* observations of the runs
  lastOk,           \* per filename: the run of the last saved analysis and its preview files
  prior,            \* lastOk of the video in progress, as it was before its save
  maxIssued,        \* largest clip number ever held by the persisted catalog
  unreleased,       \* handles uploadVideo returned for which no delete was requested
  started,          \* loop positions whose processing began in this run
  failed,           \* loop positions that ended in the catch block in this run
  failedKeep,       \* what was persisted for the failed videos when each began
  failedNew,        \* the new video entries and clip ids of the videos that failed in this run
  checkpoint,       \* the document of this run's last save, or the index it loaded
  savedThisRun,     \* ids of the clips saved by this run's completed videos
  atBegin,          \* what was persisted for the video in progress when it began
  \* uploadVideo (lib/classify.js)
  upPc, attempt, upErr, upSleeps, upLog, upResult,
  \* classifyVideo (lib/classify.js)
  clPc, retries, clErr, clSleeps, clLog, clResult,
  \* a helper function applied on its own: where the call stands, its
  \* arguments, its result
  fnPc, fnArgs, fnResult,
  \* verifyClips (lib/classify.js)
  vPc,              \* where the call stands: "idle", "called", "repick", "returned"
  vClips,           \* the clips it was given, with their flags
  previews,         \* per clip position: the content of the file at thumbPath, if any
  candidateFiles,   \* the candidate temp files on disk, with their content
  extractFrameFn,   \* whether a frame-extraction function was supplied
  clipRefs,         \* positions of the submitted clips, in order
  mismatches,       \* positions of the clips to re-pick, in order
  mPos,             \* position in mismatches of the next clip to re-pick
  \* observations of the verifier
  vBefore,          \* the clips and previews as they were when it was called
  verdicts,         \* the batch check's answer
  lastRepick,       \* the last re-pick: its clip, the frames that failed, the answer
  repicked,         \* positions of the clips whose re-pick was run
  pacing,           \* the sleep since the last re-pick request, and before it
  rewritten,        \* the preview overwrites: the clip and its flags at that time
  \* observation of the finally block (analyze.js)
  released,         \* how the last delete request ended: "none", "done", "failed"
  \* waitForFileActive (lib/classify.js)
  wPc,              \* where the call stands: "idle", "test", "request", "sleep", "returned", "thrown"
  wElapsed,         \* Date.now() - start, in milliseconds
  wPolls,           \* status requests made so far
  wSeen,            \* the state the last status request reported
  wGap,             \* time between the last two status requests (Absent before the second)
  wErr,             \* the error thrown
  \* the remote operations of one run (analyze.js main, lib/classify.js)
  rPc,              \* where the run stands between its remote operations
  rVideo,           \* loop position of the video in progress (1-based)
  rOp,              \* the remote operation to request next
  rAttempt,         \* attempt number of the call in progress
  rPolls,           \* status polls that reported PROCESSING in this attempt
  rHandle,          \* whether uploadedFileName is set
  inFlight,         \* the requests sent and not yet answered
  rTimer,           \* "running" while a sleep is pending
  rSlept,           \* the attempts whose backoff has elapsed
  rReleased,        \* the videos whose delete request was answered
  \* the setup of one analysis process (analyze.js main, before the video loop)
  sPc,              \* where main stands: "idle", "start", "ffmpeg", "project", "loop", "exited"
  sEnv,             \* the command line and the environment the process was started in
  sEffects,         \* what the process has done to the project and the provider so far
  sExit,            \* exit status, Absent while running
  \* the server's analysis jobs (server.js)
  analysisJobs,     \* the Map: slug -> number of its job object, 0 when it has none
  jobObjects,       \* every job object created, in order of creation
  children,         \* the job objects whose child process has not closed
  served,           \* POST analyze requests answered so far
  lastReply,        \* the answer to the last POST analyze request
  \* learning and the two saves of each video (analyze.js main)
  lPc,              \* where the video in progress stands
  lVideo,           \* loop position of the video in progress (1-based)
  lSegments,        \* what classifyVideo returned for it
  lGood,            \* goodSegments: the segments that passed the score filter
  lTaxonomy,        \* the in-memory taxonomy lists
  lDiskTax,         \* the lists in taxonomy.json
  lDiskIndex,       \* the loop positions of the videos in index.json
  lLog,             \* what was done, in order: begin, learn, write taxonomy, write index
  lFailedAt,        \* per video, the step that threw, "none" otherwise
  \* observation of the run's start (analyze.js main)
  atStart,          \* of a run started with --new-only: what was persisted for each indexed file
  \* server.js:299-322  the log of one analysis job as its child's output arrives
  jobLog,           \* job.log, each line as [n |-> serial number of the line, err |-> it carries the [ERROR] prefix]
  pushed,           \* job.log right after the last handler's push, before any truncation
  lastStream,       \* the stream of the last output event, "" before the first
  outputs,          \* output events handled so far
  \* server.js:209-238  the clip routes of the server (PATCH and DELETE /api/projects/:slug/clips/:id)
  edits,            \* clip requests handled so far
  lastEdit,         \* the last clip request: route, id, project found, index.json before it, status of the reply, whether saveIndex was called
  srvDeleted,       \* <<run, id>> for each clip the server deleted while analysis run 'run' was in progress
  srvEdited,        \* <<run, id>> for each clip the server edited while analysis run 'run' was in progress
  \* the remote files of the run (lib/classify.js:191-225, 269-277)
  rCreated,         \* <<video, attempt>> of each upload attempt whose push returned a file
  rHeld,            \* <<video, attempt>> of the file uploadVideo returned a handle to, <<>> when none
  rAsked            \* the files a delete request was issued for

diskVars == <<diskIndex, thumbs, taxonomy>>
procVars == <<run, pc, exitCode, videoFiles, v, index, clipIdCounter,
              videoId, uploadedFileName, segments, goodSegments, clips>>
histVars == <<lastOk, prior, maxIssued, unreleased, started, failed,
              failedKeep, failedNew, checkpoint, savedThisRun, atBegin>>
upVars == <<upPc, attempt, upErr, upSleeps, upLog, upResult>>
clVars == <<clPc, retries, clErr, clSleeps, clLog, clResult>>
fnVars == <<fnPc, fnArgs, fnResult>>
vfVars == <<vPc, vClips, previews, candidateFiles, extractFrameFn, clipRefs,
            mismatches, mPos, vBefore, verdicts, lastRepick, repicked,
            pacing, rewritten>>
rlVars == <<released>>
wtVars == <<wPc, wElapsed, wPolls, wSeen, wGap, wErr>>
rmVars == <<rPc, rVideo, rOp, rAttempt, rPolls, rHandle, inFlight, rTimer, rSlept, rReleased>>
stVars == <<sPc, sEnv, sEffects, sExit>>
jbVars == <<analysisJobs, jobObjects, children, served, lastReply>>
svVars == <<lPc, lVideo, lSegments, lGood, lTaxonomy, lDiskTax, lDiskIndex, lLog, lFailedAt>>
nsVars == <<atStart>>
lgVars == <<jobLog, pushed, lastStream, outputs>>
edVars == <<edits, lastEdit, srvDeleted, srvEdited>>
rfVars == <<rCreated, rHeld, rAsked>>
auxVars == <<fnVars, vfVars, rlVars, wtVars, rmVars, stVars, jbVars, svVars, nsVars, lgVars, edVars, rfVars>>
\* the groups a stand-alone machine leaves alone
restOfFn == <<vfVars, rlVars, wtVars, rmVars, stVars, jbVars, svVars, nsVars, lgVars, edVars, rfVars>>
restOfVf == <<fnVars, rlVars, wtVars, rmVars, stVars, jbVars, svVars, nsVars, lgVars, edVars, rfVars>>
restOfRl == <<fnVars, vfVars, wtVars, rmVars, stVars, jbVars, svVars, nsVars, lgVars, edVars, rfVars>>
restOfWt == <<fnVars, vfVars, rlVars, rmVars, stVars, jbVars, svVars, nsVars, lgVars, edVars, rfVars>>
restOfRm == <<fnVars, vfVars, rlVars, wtVars, stVars, jbVars, svVars, nsVars, lgVars, edVars, rfVars>>
\* the groups the remote operations leave alone, the remote files apart
restOfRmRf == <<fnVars, vfVars, rlVars, wtVars, stVars, jbVars, svVars, nsVars, lgVars, edVars>>
restOfSt == <<fnVars, vfVars, rlVars, wtVars, rmVars, jbVars, svVars, nsVars, lgVars, edVars, rfVars>>
restOfJb == <<fnVars, vfVars, rlVars, wtVars, rmVars, stVars, svVars, nsVars, lgVars, edVars, rfVars>>
restOfSv == <<fnVars, vfVars, rlVars, wtVars, rmVars, stVars, jbVars, nsVars, lgVars, edVars, rfVars>>
restOfNs == <<fnVars, vfVars, rlVars, wtVars, rmVars, stVars, jbVars, svVars, lgVars, edVars, rfVars>>
\* the groups the start of a run leaves alone
restOfRun == <<fnVars, vfVars, wtVars, rmVars, stVars, jbVars, svVars, lgVars, edVars, rfVars>>
restOfLg == <<fnVars, vfVars, rlVars, wtVars, rmVars, stVars, jbVars, svVars, nsVars, edVars, rfVars>>
restOfEd == <<fnVars, vfVars, rlVars, wtVars, rmVars, stVars, jbVars, svVars, nsVars, lgVars, rfVars>>
restOfRf == <<fnVars, vfVars, rlVars, wtVars, rmVars, stVars, jbVars, svVars, nsVars, lgVars, edVars>>
vars == <<diskVars, procVars, histVars, upVars, clVars, auxVars>>

\* lib/project.js loadIndex on a project without index.json
EmptyIndex == [videos |-> <<>>, clips |-> <<>>]

\* index.json cut short by an interrupted write: JSON.parse throws on it
Unparsable == [videos |-> <<>>, clips |-> <<>>, unparsable |-> TRUE]

NoOk == [run |-> 0, files |-> {}]
NoStart == [newOnly |-> FALSE, kept |-> <<>>]
NoKeep == [videos |-> {}, clips |-> {}, files |-> {}]
NoNew == [videos |-> {}, clips |-> {}]

Filenames == Range(DirListing)

\* the ids of a clip list, and the preview files it names
ClipIds(cs) == {cs[i].id : i \in 1..Len(cs)}
ThumbnailsOf(cs) == {cs[i].thumbnail : i \in 1..Len(cs)} \ {<<>>}

\* a function without the keys in S
Without(f, S) == [k \in (DOMAIN f) \ S |-> f[k]]

\* the preview files present, each with the run that wrote it
Files(th) == {<<n, th[n]>> : n \in DOMAIN th}

\* --------------------------------------------- analyze.js: the video loop

\* the command lines: no flag, --file <name>, --new-only
ArgsSet ==
  {[file |-> f, newOnly |-> FALSE] : f \in Filenames \cup {""}}
    \cup {[file |-> "", newOnly |-> TRUE]}

\* variant: --new-only is ignored
videoFilesAll(args, idx) ==
  IF args.file # ""
  THEN SelectSeq(DirListing, LAMBDA f : f = args.file)
  ELSE DirListing

\* analyze.js:128-149  the directory listing narrowed by --file and --new-only
videoFilesFor(args, idx) ==
  LET byFile == IF args.file # ""
                THEN SelectSeq(DirListing, LAMBDA f : f = args.file)
                ELSE DirListing
      indexedFiles == {idx.videos[k].filename : k \in DOMAIN idx.videos}
  IN  IF args.newOnly
      THEN SelectSeq(byFile, LAMBDA f : f \notin indexedFiles)
      ELSE byFile

\* analyze.js:172-174  the entries of index.videos with this filename
existingVideoIds(idx, fname) ==
  {k \in DOMAIN idx.videos : idx.videos[k].filename = fname}

\* analyze.js:177  the clips of those entries
clipsToRemove(idx, fname) ==
  SelectSeq(idx.clips, LAMBDA c : c.videoId \in existingVideoIds(idx, fname))

\* variant: the prior clips' preview files are left in place
unlinkNothing(th, idx, fname) == th

\* analyze.js:178-181  unlink the preview files of the prior clips (errors ignored)
unlinkPrior(th, idx, fname) ==
  Without(th, ThumbnailsOf(clipsToRemove(idx, fname)))

\* what is persisted for one filename: its video entries, the ids of their
\* clips and those clips' preview files
PersistedFor(idx, th, fname) ==
  [videos |-> {<<k, fname>> : k \in existingVideoIds(idx, fname)},
   clips |-> ClipIds(clipsToRemove(idx, fname)),
   files |-> {<<n, th[n]>> :
                n \in ThumbnailsOf(clipsToRemove(idx, fname)) \cap DOMAIN th}]

\* analyze.js:182-183  drop the prior clips and the stale video entries
replacePrior(idx, fname) ==
  LET existing == existingVideoIds(idx, fname)
  IN  [videos |-> Without(idx.videos, existing),
       clips |-> SelectSeq(idx.clips, LAMBDA c : c.videoId \notin existing)]

\* variant: the clips are pushed but the video entry is not written
addClipsOnly(idx, vid, fname, cs) ==
  [videos |-> idx.videos, clips |-> idx.clips \o cs]

\* analyze.js:257-265  index.videos[videoId] = {...}; index.clips.push(...clips)
addToIndex(idx, vid, fname, cs) ==
  [videos |-> (vid :> [filename |-> fname]) @@ idx.videos,
   clips |-> idx.clips \o cs]

\* variant: the finally block requests no deletion
releaseNever(name) == FALSE

\* analyze.js:295  if (uploadedFileName)
releaseNeeded(name) == name # <<>>

\* variant: the error leaves the loop and reaches main().catch
afterCatchRethrow == "main.catch"

\* analyze.js:292-294  the catch block logs the error; control falls to finally
afterCatch == "finally"

\* lib/project.js saveIndex: index.json becomes the document it is given
saveIndex(idx) == idx

filename == videoFiles[v]

RunningPcs == {"loop", "upload", "classify", "gif", "finally"}

ClearVideoLocals ==
  /\ videoId' = <<>>
  /\ segments' = <<>>
  /\ uploadedFileName' = <<>>
  /\ goodSegments' = <<>>
  /\ clips' = <<>>

ClearProcess ==
  /\ ClearVideoLocals
  /\ index' = EmptyIndex
  /\ clipIdCounter' = 0

\* a step of the try block throws: the catch block runs (analyze.js:292-294)
ThrownFrom(begin, vid) ==
  /\ failed' = failed \cup {v}
  /\ failedNew' = [videos |-> failedNew.videos \cup ({<<vid, filename>>} \ begin.videos),
                   clips |-> failedNew.clips \cup ClipIds(clips)]
  /\ failedKeep' = [videos |-> failedKeep.videos \cup begin.videos,
                    clips |-> failedKeep.clips \cup begin.clips,
                    files |-> failedKeep.files \cup begin.files]
  /\ IF afterCatch = "finally"
     THEN pc' = "finally" /\ exitCode' = exitCode
     ELSE pc' = "exited" /\ exitCode' = 1

Thrown == ThrownFrom(atBegin, videoId)

NotThrown == UNCHANGED <<failed, failedKeep, failedNew, exitCode>>

\* analyze.js:80-160  setup, load the index, list the videos; loadIndex throws
\* on an unparsable index.json and main().catch exits with status 1
\* (analyze.js:335-338), as does a --file that is not in the folder
StartRun(args) ==
  /\ pc \in {"idle", "exited", "killed"}
  /\ run < MaxRuns
  /\ run' = run + 1
  /\ LET listed == IF diskIndex = Unparsable
                   THEN <<>>
                   ELSE videoFilesFor(args, diskIndex)
     IN  /\ videoFiles' = listed
         /\ IF listed = <<>>
            THEN /\ pc' = "exited"
                 /\ exitCode' = IF diskIndex = Unparsable \/ args.file # ""
                                 THEN 1 ELSE 0
                 /\ index' = EmptyIndex
                 /\ clipIdCounter' = 0
                 /\ v' = 0
            ELSE /\ pc' = "loop"
                 /\ exitCode' = Absent
                 /\ index' = diskIndex
                 /\ clipIdCounter' = generateClipId(diskIndex.clips)
                 /\ v' = 1
  /\ ClearVideoLocals
  /\ unreleased' = {}
  /\ started' = {}
  /\ failed' = {}
  /\ failedKeep' = NoKeep
  /\ failedNew' = NoNew
  /\ atBegin' = NoKeep
  /\ prior' = NoOk
  /\ checkpoint' = diskIndex
  /\ savedThisRun' = {}
  /\ released' = "none"
  /\ atStart' = IF args.newOnly /\ diskIndex # Unparsable
                THEN [newOnly |-> TRUE,
                      kept |-> [f \in {diskIndex.videos[k].filename :
                                         k \in DOMAIN diskIndex.videos} |->
                                  PersistedFor(diskIndex, thumbs, f)]]
                ELSE NoStart
  /\ UNCHANGED <<restOfRun, diskVars, lastOk, maxIssued, upVars, clVars>>

\* analyze.js:163-194  the next video begins: replace the prior clips of this
\* filename, allot the video id; await getVideoDuration(videoPath), which
\* returns a number or throws
BeginVideo ==
  /\ pc = "loop"
  /\ v <= Len(videoFiles)
  /\ started' = started \cup {v}
  /\ atBegin' = PersistedFor(diskIndex, thumbs, filename)
  /\ uploadedFileName' = <<>>
  /\ thumbs' = unlinkPrior(thumbs, index, filename)
  /\ index' = replacePrior(index, filename)
  /\ videoId' = generateVideoId(index'.videos)
  /\ \/ pc' = "upload" /\ NotThrown
     \/ ThrownFrom(atBegin', videoId')
  /\ released' = "none"
  /\ UNCHANGED <<restOfRl, diskIndex, taxonomy, run, videoFiles, v, clipIdCounter,
                 segments, goodSegments, clips,
                 lastOk, prior, maxIssued, unreleased,
                 checkpoint, savedThisRun, upVars, clVars>>

\* analyze.js:195-196  await uploadVideo(...): a handle, or the error it throws
UploadDone ==
  /\ pc = "upload"
  /\ \/ /\ uploadedFileName' = <<run, v>>
        /\ unreleased' = unreleased \cup {<<run, v>>}
        /\ pc' = "classify"
        /\ NotThrown
     \/ /\ Thrown
        /\ UNCHANGED <<uploadedFileName, unreleased>>
  /\ UNCHANGED <<auxVars, diskVars, run, videoFiles, v, index, clipIdCounter,
                 videoId, segments, goodSegments, clips,
                 lastOk, prior, maxIssued, started,
                 checkpoint, savedThisRun, atBegin, upVars, clVars>>

\* analyze.js:201-211  await classifyVideo(...): the segments, filtered by the
\* minimum score, or the error it throws
ClassifyDone ==
  /\ pc = "classify"
  /\ \/ \E segs \in SegmentsOver(PipelineScores) :
          /\ segments' = segs
          /\ goodSegments' = filterByScore(segs, minScoreOf(taxonomy))
          /\ pc' = "gif"
          /\ NotThrown
     \/ /\ Thrown
        /\ UNCHANGED <<segments, goodSegments>>
  /\ UNCHANGED <<auxVars, diskVars, run, videoFiles, v, index, clipIdCounter,
                 videoId, uploadedFileName, clips,
                 lastOk, prior, maxIssued, unreleased, started,
                 checkpoint, savedThisRun, atBegin, upVars, clVars>>

\* variant: the clip names its preview file whether or not it was written
thumbnailAlways(gifOk, gifFilename) == gifFilename

\* analyze.js:220-229  let thumbnail = null; set to the file name only when
\* extractClipGif resolved, the catch block only warns
thumbnailAfter(gifOk, gifFilename) == IF gifOk THEN gifFilename ELSE <<>>

\* analyze.js:212-253  one turn of the preview loop: the clip of the next good
\* segment, with its preview file when extractClipGif succeeds
MakeClip ==
  /\ pc = "gif"
  /\ Len(clips) < Len(goodSegments)
  /\ LET seg == goodSegments[Len(clips) + 1]
         clipId == clipIdOf(clipIdCounter)
     IN  \E gifOk \in BOOLEAN :
           /\ thumbs' = IF gifOk THEN (clipId :> run) @@ thumbs ELSE thumbs
           /\ clips' = Append(clips,
                [id |-> clipId, videoId |-> videoId,
                 thumbnail |-> thumbnailAfter(gifOk, clipId),
                 brollScore |-> seg.brollScore,
                 userEdited |-> FALSE])
  /\ clipIdCounter' = clipIdCounter + 1
  /\ UNCHANGED <<auxVars, diskIndex, taxonomy, run, pc, exitCode, videoFiles, v, index,
                 videoId, uploadedFileName, segments, goodSegments,
                 histVars, upVars, clVars>>

\* analyze.js:254-290  the preview loop is over: add the video and its clips to
\* the in-memory index, learn the terms and save the taxonomy (either may
\* throw), then save the index (lib/project.js saveIndex writes the whole
\* document)
CommitAndSave ==
  /\ pc = "gif"
  /\ Len(clips) = Len(goodSegments)
  /\ index' = addToIndex(index, videoId, filename, clips)
  /\ \/ /\ diskIndex' = saveIndex(index')
        /\ checkpoint' = index'
        /\ savedThisRun' = savedThisRun \cup ClipIds(clips)
        /\ prior' = lastOk[filename]
        /\ lastOk' = [lastOk EXCEPT ![filename] =
                        [run |-> run,
                         files |-> {<<n, run>> : n \in ThumbnailsOf(clips)}]]
        /\ maxIssued' = Max({maxIssued} \cup
                            {parseInt(id) : id \in ClipIds(diskIndex'.clips)})
        /\ pc' = "finally"
        /\ NotThrown
     \/ /\ Thrown
        /\ UNCHANGED <<diskIndex, checkpoint, savedThisRun, prior, lastOk, maxIssued>>
  /\ UNCHANGED <<auxVars, thumbs, taxonomy, run, videoFiles, v, clipIdCounter,
                 videoId, uploadedFileName, segments, goodSegments, clips,
                 unreleased, started, atBegin, upVars, clVars>>

\* variant: the loop advances by two
skipVideo(i) == i + 2

\* analyze.js:163  for (let i = 0; i < videoFiles.length; i++)
nextVideo(i) == i + 1

\* variant: the delete request's error leaves deleteUploadedFile
deleteUploadedFileRethrows == TRUE

\* lib/classify.js:270-276  deleteUploadedFile catches the request's error
\* and only warns
deleteUploadedFileThrows == FALSE

\* analyze.js:294-301  finally: request the remote file's deletion when a handle
\* was returned; the request succeeds or fails; next video
Finally ==
  /\ pc = "finally"
  /\ unreleased' = IF releaseNeeded(uploadedFileName)
                   THEN unreleased \ {uploadedFileName}
                   ELSE unreleased
  /\ \E deleted \in BOOLEAN :
       /\ released' = IF ~releaseNeeded(uploadedFileName) THEN "none"
                      ELSE IF deleted THEN "done" ELSE "failed"
       /\ IF released' = "failed" /\ deleteUploadedFileThrows
          THEN pc' = "exited" /\ exitCode' = 1 /\ v' = v
          ELSE pc' = "loop" /\ exitCode' = exitCode /\ v' = nextVideo(v)
  /\ ClearVideoLocals
  /\ atBegin' = NoKeep
  /\ prior' = NoOk
  /\ UNCHANGED <<restOfRl, diskVars, run, videoFiles, index, clipIdCounter,
                 lastOk, maxIssued, started, failed, failedKeep, failedNew,
                 checkpoint, savedThisRun, upVars, clVars>>

\* analyze.js:303-333  the loop is over: print the summary, main() returns
Finish ==
  /\ pc = "loop"
  /\ v > Len(videoFiles)
  /\ pc' = "exited"
  /\ exitCode' = 0
  /\ ClearProcess
  /\ UNCHANGED <<auxVars, diskVars, run, videoFiles, v, histVars, upVars, clVars>>

\* the process is terminated from outside at any point of the run
Interrupt ==
  /\ pc \in RunningPcs
  /\ pc' = "killed"
  /\ exitCode' = Absent
  /\ ClearProcess
  /\ videoFiles' = <<>>
  /\ v' = 0
  /\ unreleased' = {}
  /\ started' = {}
  /\ failed' = {}
  /\ failedKeep' = NoKeep
  /\ failedNew' = NoNew
  /\ atBegin' = NoKeep
  /\ prior' = NoOk
  /\ released' = "none"
  /\ UNCHANGED <<restOfRl, diskVars, run, lastOk, maxIssued, checkpoint,
                 savedThisRun, upVars, clVars>>

\* the process is terminated inside saveIndex (lib/project.js:39-43):
\* fs.writeFileSync has truncated index.json and not yet written the document
InterruptedSave ==
  /\ pc = "gif"
  /\ Len(clips) = Len(goodSegments)
  /\ diskIndex' = Unparsable
  /\ pc' = "killed"
  /\ exitCode' = Absent
  /\ ClearProcess
  /\ videoFiles' = <<>>
  /\ v' = 0
  /\ unreleased' = {}
  /\ started' = {}
  /\ failed' = {}
  /\ failedKeep' = NoKeep
  /\ failedNew' = NoNew
  /\ atBegin' = NoKeep
  /\ prior' = NoOk
  /\ UNCHANGED <<auxVars, thumbs, taxonomy, run, lastOk, maxIssued, checkpoint,
                 savedThisRun, upVars, clVars>>

\* lib/project.js loadIndex on a project folder that was never analysed
DiskInit ==
  /\ diskIndex = EmptyIndex
  /\ thumbs = <<>>

\* no analysis process has been started
ProcessInit ==
  /\ run = 0
  /\ exitCode = Absent
  /\ videoFiles = <<>>
  /\ v = 0
  /\ index = EmptyIndex
  /\ clipIdCounter = 0
  /\ videoId = <<>>
  /\ uploadedFileName = <<>>
  /\ goodSegments = <<>>
  /\ clips = <<>>

ObservationInit ==
  /\ lastOk = [f \in Filenames |-> NoOk]
  /\ prior = NoOk
  /\ maxIssued = 0
  /\ unreleased = {}
  /\ started = {}
  /\ failed = {}
  /\ failedKeep = NoKeep
  /\ failedNew = NoNew
  /\ checkpoint = EmptyIndex
  /\ savedThisRun = {}
  /\ atBegin = NoKeep

PipelineInit ==
  /\ DiskInit
  /\ taxonomy \in [minimumBrollScore : PipelineMinScores]
  /\ pc = "idle"
  /\ segments = <<>>
  /\ ProcessInit
  /\ ObservationInit

UploadIdle ==
  /\ upPc = "idle" /\ attempt = 0 /\ upErr = <<>> /\ upSleeps = <<>>
  /\ upLog = <<>> /\ upResult = <<>>

ClassifyIdle ==
  /\ clPc = "idle" /\ retries = 0 /\ clErr = <<>> /\ clSleeps = <<>>
  /\ clLog = <<>> /\ clResult = <<>>

\* no helper function is being applied
FnIdle ==
  /\ fnPc = "idle" /\ fnArgs = <<>> /\ fnResult = <<>>

\* verifyClips has not been called
NoRepick == [clip |-> 0, failing |-> {}, response |-> [kind |-> "none"]]

\* no re-pick request has been sent
NoPacing == [since |-> Absent, gap |-> Absent]

VerifyIdle ==
  /\ vPc = "idle" /\ vClips = <<>> /\ previews = <<>> /\ candidateFiles = <<>>
  /\ extractFrameFn = FALSE /\ clipRefs = <<>> /\ mismatches = <<>> /\ mPos = 0
  /\ vBefore = [clips |-> <<>>, previews |-> <<>>]
  /\ verdicts = [kind |-> "none"]
  /\ lastRepick = NoRepick /\ repicked = {} /\ pacing = NoPacing
  /\ rewritten = {}

\* no delete request has been made
ReleaseIdle == released = "none"

\* waitForFileActive has not been called
WaitIdle ==
  /\ wPc = "idle" /\ wElapsed = 0 /\ wPolls = 0 /\ wSeen = "none"
  /\ wGap = Absent /\ wErr = "none"

\* no run is issuing remote operations
RemoteIdle ==
  /\ rPc = "idle" /\ rVideo = 0 /\ rOp = "none" /\ rAttempt = 0 /\ rPolls = 0
  /\ rHandle = FALSE /\ inFlight = {} /\ rTimer = "none" /\ rSlept = {}
  /\ rReleased = {}

\* no process is in its setup
SetupIdle ==
  /\ sPc = "idle" /\ sEnv = <<>> /\ sEffects = {} /\ sExit = Absent

\* the server is not followed
ServerIdle ==
  /\ analysisJobs = <<>> /\ jobObjects = <<>> /\ children = {}
  /\ served = 0 /\ lastReply = <<>>

\* no run's saves are followed
SavesIdle ==
  /\ lPc = "idle" /\ lVideo = 0 /\ lSegments = <<>> /\ lGood = <<>>
  /\ lTaxonomy = <<>> /\ lDiskTax = <<>> /\ lDiskIndex = {} /\ lLog = <<>>
  /\ lFailedAt = <<>>

\* no run was started with --new-only
RunStartIdle == atStart = NoStart

LogIdle == jobLog = <<>> /\ pushed = <<>> /\ lastStream = "" /\ outputs = 0

NoEdit == [route |-> "", id |-> <<>>, found |-> FALSE, before |-> EmptyIndex,
           status |-> 0, wrote |-> FALSE]
EditIdle == edits = 0 /\ lastEdit = NoEdit /\ srvDeleted = {} /\ srvEdited = {}

RemoteFilesIdle == rCreated = {} /\ rHeld = <<>> /\ rAsked = {}

AuxIdle == FnIdle /\ VerifyIdle /\ ReleaseIdle /\ WaitIdle /\ RemoteIdle /\ SetupIdle /\ ServerIdle /\ SavesIdle /\ RunStartIdle /\ LogIdle /\ EditIdle /\ RemoteFilesIdle
IdleButFn == VerifyIdle /\ ReleaseIdle /\ WaitIdle /\ RemoteIdle /\ SetupIdle /\ ServerIdle /\ SavesIdle /\ RunStartIdle /\ LogIdle /\ EditIdle /\ RemoteFilesIdle
IdleButVf == FnIdle /\ ReleaseIdle /\ WaitIdle /\ RemoteIdle /\ SetupIdle /\ ServerIdle /\ SavesIdle /\ RunStartIdle /\ LogIdle /\ EditIdle /\ RemoteFilesIdle
IdleButWt == FnIdle /\ VerifyIdle /\ ReleaseIdle /\ RemoteIdle /\ SetupIdle /\ ServerIdle /\ SavesIdle /\ RunStartIdle /\ LogIdle /\ EditIdle /\ RemoteFilesIdle
IdleButRm == FnIdle /\ VerifyIdle /\ ReleaseIdle /\ WaitIdle /\ SetupIdle /\ ServerIdle /\ SavesIdle /\ RunStartIdle /\ LogIdle /\ EditIdle /\ RemoteFilesIdle
IdleButSt == FnIdle /\ VerifyIdle /\ ReleaseIdle /\ WaitIdle /\ RemoteIdle /\ ServerIdle /\ SavesIdle /\ RunStartIdle /\ LogIdle /\ EditIdle /\ RemoteFilesIdle
IdleButJb == FnIdle /\ VerifyIdle /\ ReleaseIdle /\ WaitIdle /\ RemoteIdle /\ SetupIdle /\ SavesIdle /\ RunStartIdle /\ LogIdle /\ EditIdle /\ RemoteFilesIdle
IdleButSv == FnIdle /\ VerifyIdle /\ ReleaseIdle /\ WaitIdle /\ RemoteIdle /\ SetupIdle /\ ServerIdle /\ RunStartIdle /\ LogIdle /\ EditIdle /\ RemoteFilesIdle
IdleButNs == FnIdle /\ VerifyIdle /\ ReleaseIdle /\ WaitIdle /\ RemoteIdle /\ SetupIdle /\ ServerIdle /\ SavesIdle /\ LogIdle /\ EditIdle /\ RemoteFilesIdle
IdleButLg == FnIdle /\ VerifyIdle /\ ReleaseIdle /\ WaitIdle /\ RemoteIdle /\ SetupIdle /\ ServerIdle /\ SavesIdle /\ RunStartIdle /\ EditIdle /\ RemoteFilesIdle
IdleButEd == FnIdle /\ VerifyIdle /\ ReleaseIdle /\ WaitIdle /\ RemoteIdle /\ SetupIdle /\ ServerIdle /\ SavesIdle /\ RunStartIdle /\ LogIdle /\ RemoteFilesIdle
IdleButRf == FnIdle /\ VerifyIdle /\ ReleaseIdle /\ WaitIdle /\ RemoteIdle /\ SetupIdle /\ ServerIdle /\ SavesIdle /\ RunStartIdle /\ LogIdle /\ EditIdle

Init == PipelineInit /\ UploadIdle /\ ClassifyIdle /\ AuxIdle

Next ==
  \/ \E args \in ArgsSet : StartRun(args)
  \/ BeginVideo
  \/ UploadDone
  \/ ClassifyDone
  \/ MakeClip
  \/ CommitAndSave
  \/ Finally
  \/ Finish
  \/ Interrupt
  \/ InterruptedSave

Spec == Init /\ [][Next]_vars

\* ------------------------------------- analyze.js:204-207, the score filter

\* the settings a project's taxonomy.json may carry: none, or a score in [0,1]
ConfiguredMinScores == 0..MaxScore

FilterInit ==
  /\ DiskInit
  /\ taxonomy \in [minimumBrollScore : ConfiguredMinScores \cup {Absent}]
  /\ pc = "filter"
  /\ segments \in SegmentsOver(0..MaxScore)
  /\ ProcessInit
  /\ ObservationInit
  /\ UploadIdle
  /\ ClassifyIdle
  /\ AuxIdle

\* analyze.js:205-206  Step 4 applied to the segments classifyVideo returned
FilterSegments ==
  /\ pc = "filter"
  /\ goodSegments' = filterByScore(segments, minScoreOf(taxonomy))
  /\ pc' = "filtered"
  /\ UNCHANGED <<auxVars, diskVars, run, exitCode, videoFiles, v, index, clipIdCounter,
                 videoId, uploadedFileName, segments, clips,
                 histVars, upVars, clVars>>

FilterNext == FilterSegments

SpecFilter == FilterInit /\ [][FilterNext]_vars

\* C1: for every configured minimumBrollScore in [0,1], 0 included, the
\* filter retains a segment if and only if its score is at least the
\* configured minimum (a score equal to the minimum is retained); the default
\* 0.5 applies only when no minimum is configured.
C1_FilterUsesConfiguredMinimum ==
  pc = "filtered" =>
    LET configured == taxonomy.minimumBrollScore
        minimum == IF configured = Absent THEN DefaultMinScore ELSE configured
    IN  goodSegments = SelectSeq(segments, LAMBDA s : s.brollScore >= minimum)

\* a configured minimum of 0 and a segment scored 0.3 that the filter dropped
C1_ZeroMinimumDropsSegment ==
  /\ pc = "filtered"
  /\ taxonomy.minimumBrollScore = 0
  /\ segments = <<[brollScore |-> 3]>>
  /\ goodSegments = <<>>

\* ------------------------------------------ properties of the pipeline runs

C4_ReferentialIntegrity ==
  \A i \in 1..Len(diskIndex.clips) :
    diskIndex.clips[i].videoId \in DOMAIN diskIndex.videos

\* an index with clips saved by a re-analysis, in a run where a video failed
C4_SavedAfterReplacementAndFailure ==
  /\ pc = "finally"
  /\ v \notin failed
  /\ failed # {}
  /\ prior.run > 0
  /\ clips # <<>>

\* C5: a handle that uploadVideo returned and whose deletion has not been
\* requested belongs to the video in progress; none is outstanding when the
\* next video begins or the run ends.
C5_HandleReleasedBeforeNextVideo ==
  \A h \in unreleased :
    /\ h = uploadedFileName
    /\ pc \in {"classify", "gif", "finally"}

\* the first video made a preview (so its upload had returned a handle), then
\* failed; the loop is at the second video
C5_ReleasedAfterFailure ==
  /\ pc = "loop"
  /\ v = 2
  /\ 1 \in failed
  /\ \E n \in DOMAIN thumbs : thumbs[n] = run
  /\ unreleased = {}

\* C8: a run that entered the video loop ends with exit status 0 after
\* having begun every video of its list, whatever videos failed.
C8_ErrorsDoNotEndRun ==
  (pc = "exited" /\ videoFiles # <<>>) =>
    /\ exitCode = 0
    /\ started = 1..Len(videoFiles)

\* a finished run whose first video failed and which had a second video
C8_FinishedAfterFailure ==
  /\ pc = "exited"
  /\ Len(videoFiles) = 2
  /\ 1 \in failed
  /\ exitCode = 0

\* C9: what was persisted for a video before its failed processing began
\* (video entries, clips, preview files) is still persisted afterwards, for
\* the rest of the run.
C9_FailureKeepsSavedState ==
  /\ \A e \in failedKeep.videos :
       e[1] \in DOMAIN diskIndex.videos /\ diskIndex.videos[e[1]].filename = e[2]
  /\ failedKeep.clips \subseteq ClipIds(diskIndex.clips)
  /\ failedKeep.files \subseteq Files(thumbs)

\* a failed re-analysis after which the prior preview file is gone
C9_PreviewLostByFailedReanalysis ==
  /\ pc = "finally"
  /\ v \in failed
  /\ \E f \in failedKeep.files : f \notin Files(thumbs)

\* C10: the persisted index is the one the last completed video's save wrote
\* (the one the run loaded when none completed), at every point of a run and
\* wherever the run is interrupted, and holds the clips of every video the
\* run saved.
C10_SaveIsTheCheckpoint ==
  /\ diskIndex = checkpoint
  /\ savedThisRun \subseteq ClipIds(diskIndex.clips)

\* a run interrupted during its second save, after the first had persisted clips
C10_InterruptedInSecondSave ==
  /\ pc = "killed"
  /\ savedThisRun # {}
  /\ checkpoint.clips # <<>>
  /\ diskIndex = Unparsable

\* --------------------------- server.js: the user deletes a clip in the UI

\* DELETE /api/projects/:slug/clips/:id  load the index, drop the clip with
\* this id, save; an id no clip has is answered 404 and nothing is written.
\* The preview file is not removed. The server is a process of its own and
\* serves the request whether or not an analysis is running.
DeleteClip(id) ==
  /\ diskIndex # Unparsable
  /\ LET kept == SelectSeq(diskIndex.clips, LAMBDA c : c.id # id)
     IN  /\ Len(kept) # Len(diskIndex.clips)
         /\ diskIndex' = saveIndex([videos |-> diskIndex.videos, clips |-> kept])
  /\ UNCHANGED <<auxVars, thumbs, taxonomy, procVars, histVars, upVars, clVars>>

\* the analysis runs, with the user deleting clips between them
UserNext ==
  \/ Next
  \/ /\ pc \notin RunningPcs
     /\ \E id \in ClipIds(diskIndex.clips) : DeleteClip(id)

SpecUser == Init /\ [][UserNext]_vars

\* C3: every clip id the pipeline issues is greater than every clip id the
\* catalog has ever held, the ids of clips deleted since (by the user or by a
\* re-analysis) included.
C3_ClipIdsNeverReissued ==
  pc = "gif" =>
    \A i \in 1..Len(clips) : parseInt(clips[i].id) > maxIssued

\* a clip was issued an id that a clip deleted by the user had held
C3_IdOfDeletedClipReissued ==
  /\ pc = "gif"
  /\ diskIndex.clips = <<>>
  /\ \E i \in 1..Len(clips) : parseInt(clips[i].id) = maxIssued

\* ------------------------------------------- lib/classify.js: uploadVideo

\* what can fail in each step of one attempt
InitiateFailures == {"network error", "no upload url"}
PushFailures == {"network error", "invalid response", "api error", "no file_uri"}
PollFailures == {"network error", "invalid status body", "processing failed"}

\* variant: the same wait after every failed attempt
uploadBackoffFlat(n) == UploadBackoffUnit

\* classify.js:229  const backoff = 5000 * attempt
uploadBackoff(n) == UploadBackoffUnit * n

\* the status requests of the current attempt so far (waitForFileActive)
pollsDone ==
  Cardinality({i \in 1..Len(upLog) :
                 upLog[i] = [req |-> "status", attempt |-> attempt]})

upRequest(kind) == upLog' = Append(upLog, [req |-> kind, attempt |-> attempt])

\* classify.js:227-236  catch: sleep and go round the loop again, or throw
\* `Upload failed after ${MAX_RETRIES} attempts: ${err.message}`
UploadCaught(kind) ==
  LET err == [kind |-> kind, attempt |-> attempt]
  IN  /\ upErr' = Append(upErr, err)
      /\ IF attempt < MAX_RETRIES
         THEN /\ upSleeps' = Append(upSleeps, uploadBackoff(attempt))
              /\ upPc' = "sleep"
              /\ upResult' = upResult
         ELSE /\ upSleeps' = upSleeps
              /\ upPc' = "thrown"
              /\ upResult' = [ok |-> FALSE, after |-> MAX_RETRIES, cause |-> err]

UploadNotCaught == UNCHANGED <<upErr, upSleeps, upResult>>

\* classify.js:160-171  uploadVideo is called: the first attempt starts
UploadCall ==
  /\ upPc = "idle"
  /\ attempt' = 1
  /\ upPc' = "init"
  /\ UNCHANGED <<auxVars, diskVars, procVars, histVars, clVars,
                 upErr, upSleeps, upLog, upResult>>

\* classify.js:173-189  Step 1: initiate the resumable upload
UploadInitiate ==
  /\ upPc = "init"
  /\ upRequest("start")
  /\ \/ upPc' = "push" /\ UploadNotCaught
     \/ \E kind \in InitiateFailures : UploadCaught(kind)
  /\ UNCHANGED <<auxVars, diskVars, procVars, histVars, clVars, attempt>>

\* classify.js:191-220  Step 2: push the bytes, read the file's uri and name
UploadPush ==
  /\ upPc = "push"
  /\ upRequest("upload, finalize")
  /\ \/ upPc' = "poll" /\ UploadNotCaught
     \/ \E kind \in PushFailures : UploadCaught(kind)
  /\ UNCHANGED <<auxVars, diskVars, procVars, histVars, clVars, attempt>>

\* classify.js:222-225, 243-264  Step 3: one status request of
\* waitForFileActive: ACTIVE returns the handle, FAILED throws, PROCESSING
\* sleeps pollInterval and polls again
UploadPoll ==
  /\ upPc = "poll"
  /\ pollsDone <= MaxPolls
  /\ upRequest("status")
  /\ \/ /\ upPc' = "returned"
        /\ upResult' = [ok |-> TRUE, attempt |-> attempt]
        /\ UNCHANGED <<upErr, upSleeps>>
     \/ /\ pollsDone < MaxPolls
        /\ upPc' = "poll"
        /\ UploadNotCaught
     \/ \E kind \in PollFailures : UploadCaught(kind)
  /\ UNCHANGED <<auxVars, diskVars, procVars, histVars, clVars, attempt>>

\* classify.js:248, 263  maxWait has passed when the loop condition is tested
\* again after a poll: "Timed out waiting for video file to be processed"
UploadPollTimeout ==
  /\ upPc = "poll"
  /\ pollsDone >= 1
  /\ UploadCaught("timed out")
  /\ UNCHANGED <<auxVars, diskVars, procVars, histVars, clVars, attempt, upLog>>

\* classify.js:232, 171  the backoff sleep is over: attempt++
UploadRetry ==
  /\ upPc = "sleep"
  /\ attempt' = attempt + 1
  /\ upPc' = "init"
  /\ UNCHANGED <<auxVars, diskVars, procVars, histVars, clVars,
                 upErr, upSleeps, upLog, upResult>>

UploadNext ==
  \/ UploadCall
  \/ UploadInitiate
  \/ UploadPush
  \/ UploadPoll
  \/ UploadPollTimeout
  \/ UploadRetry

SpecUpload == Init /\ [][UploadNext]_vars

\* the requests of one attempt come in the order start, upload, status...
UploadLogInOrder ==
  \A i \in 1..Len(upLog) :
    IF i = 1 \/ upLog[i].attempt # upLog[i - 1].attempt
    THEN /\ upLog[i].req = "start"
         /\ upLog[i].attempt = IF i = 1 THEN 1 ELSE upLog[i - 1].attempt + 1
    ELSE \/ upLog[i].req = "upload, finalize" /\ upLog[i - 1].req = "start"
         \/ /\ upLog[i].req = "status"
            /\ upLog[i - 1].req \in {"upload, finalize", "status"}

\* C6: uploadVideo makes at most 3 attempts, each starting again from the
\* initiate request; it waits 5 s after the 1st failed attempt, 10 s after the
\* 2nd and not after the 3rd; it returns the handle of the first attempt that
\* succeeds, with no request after it; after the 3rd failure it throws an
\* error carrying the 3rd attempt's underlying error.
C6_UploadRetries ==
  /\ attempt <= 3
  /\ UploadLogInOrder
  /\ \A i \in 1..Len(upLog) : upLog[i].attempt <= 3
  /\ \A i \in 1..Len(upErr) : upErr[i].attempt = i
  /\ Len(upSleeps) = IF Len(upErr) < 3 THEN Len(upErr) ELSE 2
  /\ upSleeps = SubSeq(<<5000, 10000>>, 1, Len(upSleeps))
  /\ upPc = "returned" =>
       /\ upResult.ok
       /\ upResult.attempt = Len(upErr) + 1
       /\ upLog[Len(upLog)] = [req |-> "status", attempt |-> upResult.attempt]
  /\ upPc = "thrown" =>
       /\ ~upResult.ok
       /\ Len(upErr) = 3
       /\ upResult.cause = upErr[3]
       /\ upLog[Len(upLog)].attempt = 3

\* three failed attempts, each failing in a different step
C6_ThreeAttemptsFailed ==
  /\ upPc = "thrown"
  /\ upErr[1].kind = "no upload url"
  /\ upErr[2].kind = "api error"
  /\ upErr[3].kind = "timed out"
  /\ upSleeps = <<5000, 10000>>

\* ----------------------------------------- lib/classify.js: classifyVideo

\* what can fail in one attempt: postJSON rejects (request error, a body that
\* is not JSON, status >= 400), the answer carries no text, the text is not JSON
ClassifyFailures ==
  {"network error", "invalid JSON body", "http error", "no text", "unparsable text"}

\* classify.js:323  Array.isArray(parsed) ? parsed : [parsed]
ClassifyAnswers == {"array", "object"}

\* variant: the give-up test lets a fourth round begin
classifyGivesUpLate(n) == n > ClassifyMaxTries

\* classify.js:326  if (retries >= 3) throw
classifyGivesUp(n) == n >= ClassifyMaxTries

\* classify.js:329  const backoff = 5000 * (retries + 1)
classifyBackoff(n) == ClassifyBackoffUnit * (n + 1)

\* classify.js:297-303  classifyVideo is called
ClassifyCall ==
  /\ clPc = "idle"
  /\ retries' = 0
  /\ clPc' = "request"
  /\ UNCHANGED <<auxVars, diskVars, procVars, histVars, upVars,
                 clErr, clSleeps, clLog, clResult>>

\* classify.js:304-332  one attempt: the generateContent request, the parse
\* of its answer, and the catch block when either fails
ClassifyRequest ==
  /\ clPc = "request"
  /\ clLog' = Append(clLog, [req |-> "generateContent", attempt |-> retries + 1])
  /\ \/ \E answer \in ClassifyAnswers :
          /\ clPc' = "returned"
          /\ clResult' = [ok |-> TRUE, attempt |-> retries + 1,
                          wrapped |-> (answer = "object")]
          /\ UNCHANGED <<retries, clErr, clSleeps>>
     \/ \E kind \in ClassifyFailures :
          LET err == [kind |-> kind, attempt |-> retries + 1]
          IN  /\ retries' = retries + 1
              /\ clErr' = Append(clErr, err)
              /\ IF classifyGivesUp(retries')
                 THEN /\ clPc' = "thrown"
                      /\ clResult' = [ok |-> FALSE, after |-> ClassifyMaxTries,
                                      cause |-> err]
                      /\ clSleeps' = clSleeps
                 ELSE /\ clPc' = "sleep"
                      /\ clSleeps' = Append(clSleeps, classifyBackoff(retries'))
                      /\ clResult' = clResult
  /\ UNCHANGED <<auxVars, diskVars, procVars, histVars, upVars>>

\* classify.js:331, 303  the backoff sleep is over: the loop condition is
\* tested; when it fails the function ends without a value
ClassifyRetry ==
  /\ clPc = "sleep"
  /\ IF retries < ClassifyMaxTries
     THEN clPc' = "request" /\ clResult' = clResult
     ELSE clPc' = "returned" /\ clResult' = [ok |-> TRUE, attempt |-> 0,
                                              wrapped |-> FALSE]
  /\ UNCHANGED <<auxVars, diskVars, procVars, histVars, upVars,
                 retries, clErr, clSleeps, clLog>>

ClassifyNext ==
  \/ ClassifyCall
  \/ ClassifyRequest
  \/ ClassifyRetry

SpecClassify == Init /\ [][ClassifyNext]_vars

\* C7: classifyVideo issues one request per attempt and at most 3 per call;
\* a failed attempt is followed by another unless 3 have failed; it returns
\* the answer of the first attempt that parses, with no request after it;
\* after the last failed attempt it throws an error carrying that attempt's
\* cause.
C7_ClassifyRetries ==
  /\ Len(clLog) <= 3
  /\ \A i \in 1..Len(clLog) : clLog[i].attempt = i
  /\ \A i \in 1..Len(clErr) : clErr[i].attempt = i
  /\ Len(clLog) = Len(clErr) + IF clPc = "returned" THEN 1 ELSE 0
  /\ clPc = "sleep" => Len(clErr) < 3
  /\ clPc = "returned" =>
       /\ clResult.ok
       /\ clResult.attempt = Len(clLog)
  /\ clPc = "thrown" =>
       /\ ~clResult.ok
       /\ Len(clErr) = 3
       /\ clResult.cause = clErr[3]

\* three failed attempts: no text, unparsable text, provider status >= 400
C7_ThreeAttemptsFailed ==
  /\ clPc = "thrown"
  /\ clErr[1].kind = "no text"
  /\ clErr[2].kind = "unparsable text"
  /\ clErr[3].kind = "http error"

\* ------------------------------------------ lib/frames.js: tidyClipWindow

\* Seconds are counted in units of 1/9500 s, in which every product and sum of
\* tidyClipWindow is a whole number for arguments on a grid of 1/38 s (Tick);
\* on that grid the trimmed window can be exactly 0.38 s long (23 ticks).
Second == 9500
Tick == 250

Hundredths(n) == (n * Second) \div 100

\* x * 0.24 and x * 0.18
Times(x, percent) == (x * percent) \div 100

MaxOf(a, b) == IF a >= b THEN a ELSE b
MinOf(a, b) == IF a <= b THEN a ELSE b

\* variant: the fallback also replaces a trimmed window of exactly 0.38 s
tooShortInclusive(len) == len <= Hundredths(38)

\* frames.js:18  if (end - start < 0.38)
tooShort(len) == len < Hundredths(38)

\* variant: the duration is returned without its floor of 0.25 s
windowDurationUnclamped(start, end) == end - start

\* frames.js:24  Math.max(0.25, end - start)
windowDuration(start, end) == MaxOf(Hundredths(25), end - start)

\* frames.js:9-25
tidyClipWindow(startSeconds, endSeconds) ==
  LET rawDuration == MaxOf(endSeconds - startSeconds, Hundredths(20))
      startInset == MinOf(Hundredths(18), Times(rawDuration, 24))
      endInset == MinOf(Hundredths(8), Times(rawDuration, 18))
      start0 == startSeconds + startInset
      end0 == endSeconds - endInset
      center == (startSeconds + endSeconds) \div 2
      start == IF tooShort(end0 - start0)
               THEN MaxOf(0, center - Hundredths(22)) ELSE start0
      end == IF tooShort(end0 - start0) THEN center + Hundredths(22) ELSE end0
  IN  [start |-> start, duration |-> windowDuration(start, end)]

\* the segments' bounds: 0 <= start < end on the grid
TidyArgs ==
  {a \in [startSeconds : {n * Tick : n \in 0..MaxTicks},
          endSeconds : {n * Tick : n \in 0..MaxTicks}] :
     a.startSeconds < a.endSeconds}

TidyInit ==
  /\ PipelineInit
  /\ UploadIdle
  /\ ClassifyIdle
  /\ IdleButFn
  /\ fnPc = "tidy"
  /\ fnArgs \in TidyArgs
  /\ fnResult = <<>>

\* frames.js:161-162  extractClipGif computes the window of its segment
TidyWindow ==
  /\ fnPc = "tidy"
  /\ fnResult' = tidyClipWindow(fnArgs.startSeconds, fnArgs.endSeconds)
  /\ fnPc' = "tidied"
  /\ UNCHANGED <<diskVars, procVars, histVars, upVars, clVars, restOfFn, fnArgs>>

TidyNext == TidyWindow

SpecTidy == TidyInit /\ [][TidyNext]_vars

\* the insets and the trimmed length stated in seconds, from the arguments
RawDurationOf(a) == MaxOf(a.endSeconds - a.startSeconds, Hundredths(20))
StartInsetOf(a) == MinOf(Hundredths(18), Times(RawDurationOf(a), 24))
EndInsetOf(a) == MinOf(Hundredths(8), Times(RawDurationOf(a), 18))
TrimmedOf(a) ==
  (a.endSeconds - EndInsetOf(a)) - (a.startSeconds + StartInsetOf(a))
MidOf(a) == (a.startSeconds + a.endSeconds) \div 2

\* C11: for 0 <= start < end the window starts at or after 0 and lasts at
\* least 0.25 s; when the inset branch is taken it starts at start +
\* min(0.18, 0.24 x rawDuration), ends at end - min(0.08, 0.18 x rawDuration),
\* hence at or before end, with rawDuration = max(end - start, 0.2).
C11_TidiedWindow ==
  fnPc = "tidied" =>
    /\ fnResult.start >= 0
    /\ fnResult.duration >= Hundredths(25)
    /\ TrimmedOf(fnArgs) >= Hundredths(38) =>
         /\ fnResult.start = fnArgs.startSeconds + StartInsetOf(fnArgs)
         /\ fnResult.start + fnResult.duration
              = fnArgs.endSeconds - EndInsetOf(fnArgs)
         /\ fnResult.start + fnResult.duration <= fnArgs.endSeconds

\* a segment of one second from 1/38 s on: the inset branch with both insets
\* at their caps
C11_InsetWindow ==
  /\ fnPc = "tidied"
  /\ fnArgs = [startSeconds |-> Tick, endSeconds |-> 39 * Tick]
  /\ fnResult.start = Tick + Hundredths(18)
  /\ fnResult.duration = 38 * Tick - Hundredths(26)

\* C12: when the trimmed length is at most 0.38 s the result is the 0.44 s
\* window centred on the midpoint, from max(0, mid - 0.22) to mid + 0.22; for
\* trimmed lengths above 0.38 s the trimmed window is returned.
C12_FallbackWindow ==
  fnPc = "tidied" =>
    IF TrimmedOf(fnArgs) <= Hundredths(38)
    THEN /\ fnResult.start = MaxOf(0, MidOf(fnArgs) - Hundredths(22))
         /\ fnResult.start + fnResult.duration = MidOf(fnArgs) + Hundredths(22)
    ELSE /\ fnResult.start = fnArgs.startSeconds + StartInsetOf(fnArgs)
         /\ fnResult.duration = TrimmedOf(fnArgs)

\* C12 as the code has it: when the trimmed length is below 0.38 s the window
\* starts at max(0, mid - 0.22) and lasts to mid + 0.22, but no less than
\* 0.25 s; for trimmed lengths of 0.38 s and above the trimmed window is
\* returned.
C12_FallbackWindowBelowThreshold ==
  fnPc = "tidied" =>
    IF TrimmedOf(fnArgs) < Hundredths(38)
    THEN /\ fnResult.start = MaxOf(0, MidOf(fnArgs) - Hundredths(22))
         /\ fnResult.duration =
              MaxOf(Hundredths(25),
                    MidOf(fnArgs) + Hundredths(22) - fnResult.start)
    ELSE /\ fnResult.start = fnArgs.startSeconds + StartInsetOf(fnArgs)
         /\ fnResult.duration = TrimmedOf(fnArgs)

\* a segment whose trimmed length is exactly 0.38 s keeps its trimmed window
C12_TrimmedExactlyAtThreshold ==
  /\ fnPc = "tidied"
  /\ TrimmedOf(fnArgs) = Hundredths(38)
  /\ fnResult.duration = Hundredths(38)

\* --------------------------------- analyze.js:268-285, taxonomy learning

\* the taxonomy's list fields with the segment field each learns from, in
\* the order of analyze.js:280-283
LearnedFields ==
  <<[list |-> "equipment", from |-> "equipment"],
    [list |-> "products", from |-> "products"],
    [list |-> "techniques", from |-> "technique"],
    [list |-> "subjectDescriptors", from |-> "subjectDescriptors"]>>

ListFields == {LearnedFields[i].list : i \in 1..Len(LearnedFields)}
SegmentFields == {LearnedFields[i].from : i \in 1..Len(LearnedFields)}

\* the terms in play; "" is the empty string
KnownTerms == {"Grinder", "kettle"}
ReportedTerms == {"grinder", "Grinder", "kettle", ""}

\* variant: terms are compared as written
sameCase(t) == t

\* String.prototype.toLowerCase on the terms in play
toLowerCase(t) == IF t = "Grinder" THEN "grinder" ELSE t

SeqsUpTo(S, n) == UNION {[1..k -> S] : k \in 0..n}

\* what a segment may carry in a field: nothing, a string, an array
Undefined == [kind |-> "undefined"]
FieldValues ==
  {Undefined}
    \cup {[kind |-> "string", value |-> t] : t \in ReportedTerms}
    \cup {[kind |-> "array", items |-> a] : a \in SeqsUpTo(ReportedTerms, MaxTerms)}

\* analyze.js:64-68  toArray
toArray(val) ==
  IF val.kind = "array" THEN val.items
  ELSE IF val.kind = "string" /\ val.value # "" THEN <<val.value>>
  ELSE <<>>

\* analyze.js:270-278  mergeTerms: push each discovered term that is truthy
\* and whose lower-case form is not in the set yet
RECURSIVE mergeTerms(_, _)
mergeTerms(existing, discovered) ==
  IF discovered = <<>> THEN existing
  ELSE LET term == Head(discovered)
           set == {toLowerCase(existing[i]) : i \in 1..Len(existing)}
       IN  mergeTerms(IF term # "" /\ toLowerCase(term) \notin set
                      THEN Append(existing, term)
                      ELSE existing,
                      Tail(discovered))

\* analyze.js:280-283  the four merges for one segment
learnSegment(tax, seg) ==
  [f \in ListFields |->
     LET pair == CHOOSE p \in Range(LearnedFields) : p.list = f
     IN  mergeTerms(tax[f], toArray(seg[pair.from]))]

\* analyze.js:279-284  for (const seg of allSegments)
RECURSIVE learnTerms(_, _)
learnTerms(tax, segs) ==
  IF segs = <<>> THEN tax
  ELSE learnTerms(learnSegment(tax, Head(segs)), Tail(segs))

\* the lists a taxonomy field may hold before learning
KnownLists == SeqsUpTo(KnownTerms, Cardinality(KnownTerms))

\* a taxonomy and two segments that differ from empty ones in one list field
LearnInit ==
  /\ PipelineInit
  /\ UploadIdle
  /\ ClassifyIdle
  /\ IdleButFn
  /\ fnPc = "learn"
  /\ \E i \in 1..Len(LearnedFields), known \in KnownLists,
        first \in FieldValues, second \in FieldValues :
       fnArgs =
         [taxonomy |-> [f \in ListFields |->
                          IF f = LearnedFields[i].list THEN known ELSE <<>>],
          segments |-> <<[g \in SegmentFields |->
                            IF g = LearnedFields[i].from THEN first ELSE Undefined],
                         [g \in SegmentFields |->
                            IF g = LearnedFields[i].from THEN second ELSE Undefined]>>]
  /\ fnResult = <<>>

\* analyze.js:268-284  the accepted segments' terms are learned
LearnTerms ==
  /\ fnPc = "learn"
  /\ LET learned == learnTerms(fnArgs.taxonomy, fnArgs.segments)
     IN  fnResult' = [first |-> learned, second |-> learned]
  /\ fnPc' = "learned"
  /\ UNCHANGED <<diskVars, procVars, histVars, upVars, clVars, restOfFn, fnArgs>>

\* the same segments are learned again (the video is analysed once more)
LearnAgain ==
  /\ fnPc = "learned"
  /\ fnResult' = [fnResult EXCEPT
                    !.second = learnTerms(fnResult.first, fnArgs.segments)]
  /\ fnPc' = "relearned"
  /\ UNCHANGED <<diskVars, procVars, histVars, upVars, clVars, restOfFn, fnArgs>>

LearnNext ==
  \/ LearnTerms
  \/ LearnAgain

SpecLearn == LearnInit /\ [][LearnNext]_vars

\* the terms a segment's field value reports, as written
ReportedBy(val) ==
  IF val.kind = "array" THEN val.items
  ELSE IF val.kind = "string" THEN <<val.value>>
  ELSE <<>>

\* two terms that differ in casing at most
SameTerm(a, b) == a = b \/ {a, b} = {"grinder", "Grinder"}

\* positions of the non-empty reported terms that are neither known nor
\* reported earlier, whatever the casing
FirstAppearanceAt(known, reported) ==
  {i \in 1..Len(reported) :
     /\ reported[i] # ""
     /\ \A k \in 1..Len(known) : ~SameTerm(known[k], reported[i])
     /\ \A j \in 1..(i - 1) : ~SameTerm(reported[j], reported[i])}

RECURSIVE PickInOrder(_, _, _)
PickInOrder(list, positions, n) ==
  IF n = 0 THEN <<>>
  ELSE IF n \in positions THEN Append(PickInOrder(list, positions, n - 1), list[n])
  ELSE PickInOrder(list, positions, n - 1)

FirstAppearances(known, reported) ==
  PickInOrder(reported, FirstAppearanceAt(known, reported), Len(reported))

\* C13: taxonomy learning is append-only, case-insensitive and idempotent.
\* After learning, every list field is the list it was before, unchanged and
\* in order, followed by the non-empty terms its segment field reported that
\* were not present under case-insensitive comparison, each once, in order of
\* first appearance; learning the same segments again changes nothing.
C13_LearningAppendsOnce ==
  fnPc \in {"learned", "relearned"} =>
    /\ \A p \in Range(LearnedFields) :
         LET known == fnArgs.taxonomy[p.list]
             reported == ReportedBy(fnArgs.segments[1][p.from])
                           \o ReportedBy(fnArgs.segments[2][p.from])
         IN  fnResult.first[p.list] = known \o FirstAppearances(known, reported)
    /\ fnResult.second = fnResult.first

\* C13 witness: "grinder" is known as "Grinder", "kettle" is reported by both
\* segments, and the techniques list has grown by "kettle" alone after the
\* segments were learned twice.
C13_LearnedTwice ==
  /\ fnPc = "relearned"
  /\ fnArgs.taxonomy["techniques"] = <<"Grinder">>
  /\ fnArgs.segments[1]["technique"] = [kind |-> "array", items |-> <<"grinder", "kettle">>]
  /\ fnArgs.segments[2]["technique"] = [kind |-> "string", value |-> "kettle"]
  /\ fnResult.second["techniques"] = <<"Grinder", "kettle">>

\* ----------------- analyze.js:204-253, the clips of the accepted segments

\* a timestamp is a number of seconds or a string, here the digit strings
\* between its colons: "0:10" is <<<<0>>, <<1, 0>>>>
NumberOf(n) == [type |-> "number", value |-> n]
StringOf(parts) == [type |-> "string", parts |-> parts]

\* variant: a minute of a hundred seconds
minutesToSecondsDecimal(m) == m * 100

\* classify.js:492  parseInt(parts[0], 10) * 60
minutesToSeconds(m) == m * 60

\* classify.js:488-495  parseTimestamp
parseTimestamp(ts) ==
  IF ts.type = "number" THEN ts.value
  ELSE IF Len(ts.parts) = 2
       THEN LET m == parseInt(ts.parts[1])
                sec == parseInt(ts.parts[2])
            IN  IF m = NaN \/ sec = NaN THEN NaN ELSE minutesToSeconds(m) + sec
       ELSE LET n == IF ts.parts = <<>> THEN NaN ELSE parseInt(ts.parts[1])
            IN  IF n = NaN THEN 0 ELSE n

\* analyze.js:50-54  formatTime, for whole seconds
formatTime(seconds) ==
  LET m == seconds \div 60
      sec == seconds % 60
  IN  StringOf(<<Digits(m), padStart(Digits(sec), 2)>>)

\* the provider's timestamps: "0:10", "0:13", "0:20", "0:21", "01:05" and the
\* number 75
Timestamps ==
  {StringOf(<<<<0>>, <<1, 0>>>>), StringOf(<<<<0>>, <<1, 3>>>>),
   StringOf(<<<<0>>, <<2, 0>>>>), StringOf(<<<<0>>, <<2, 1>>>>),
   StringOf(<<<<0, 1>>, <<0, 5>>>>), NumberOf(75)}

ClipScores == {4, 9}
ClipMinScores == {Absent, 5}

\* segments that end after they start (classify.js:28)
TimedSegment ==
  {seg \in [startTime : Timestamps, endTime : Timestamps, brollScore : ClipScores] :
     parseTimestamp(seg.startTime) < parseTimestamp(seg.endTime)}

TimedSegments == UNION {[1..n -> TimedSegment] : n \in 0..MaxSegments}

\* classifyVideo has returned for the first video of a new project
ClipsInit ==
  /\ DiskInit
  /\ taxonomy \in [minimumBrollScore : ClipMinScores]
  /\ pc = "filter"
  /\ segments \in TimedSegments
  /\ run = 1
  /\ exitCode = Absent
  /\ videoFiles = <<DirListing[1]>>
  /\ v = 1
  /\ index = EmptyIndex
  /\ clipIdCounter = generateClipId(EmptyIndex.clips)
  /\ videoId = generateVideoId(EmptyIndex.videos)
  /\ uploadedFileName = <<>>
  /\ goodSegments = <<>>
  /\ clips = <<>>
  /\ ObservationInit
  /\ UploadIdle
  /\ ClassifyIdle
  /\ AuxIdle

\* analyze.js:212-253  one turn of the preview loop, with the clip's times
BuildClip ==
  /\ pc = "filtered"
  /\ Len(clips) < Len(goodSegments)
  /\ LET seg == goodSegments[Len(clips) + 1]
         startSec == parseTimestamp(seg.startTime)
         endSec == parseTimestamp(seg.endTime)
         clipId == clipIdOf(clipIdCounter)
     IN  \E gifOk \in BOOLEAN :
           /\ thumbs' = IF gifOk THEN (clipId :> run) @@ thumbs ELSE thumbs
           /\ clips' = Append(clips,
                [id |-> clipId, videoId |-> videoId,
                 startTime |-> formatTime(startSec),
                 endTime |-> formatTime(endSec),
                 startSeconds |-> startSec,
                 endSeconds |-> endSec,
                 thumbnail |-> thumbnailAfter(gifOk, clipId),
                 brollScore |-> seg.brollScore])
  /\ clipIdCounter' = clipIdCounter + 1
  /\ UNCHANGED <<auxVars, diskIndex, taxonomy, run, pc, exitCode, videoFiles, v, index,
                 videoId, uploadedFileName, segments, goodSegments,
                 histVars, upVars, clVars>>

ClipsNext ==
  \/ FilterSegments
  \/ BuildClip

SpecClips == ClipsInit /\ [][ClipsNext]_vars

\* the number a digit string denotes
RECURSIVE ValueOf(_)
ValueOf(ds) == IF ds = <<>> THEN 0 ELSE ValueOf(SubSeq(ds, 1, Len(ds) - 1)) * 10 + ds[Len(ds)]

\* the instant a timestamp denotes, in seconds
Instant(ts) ==
  IF ts.type = "number" THEN ts.value
  ELSE ValueOf(ts.parts[1]) * 60 + ValueOf(ts.parts[2])

\* M:SS form: minutes without padding, two digits of seconds below 60
IsMSS(ts) ==
  /\ ts.type = "string"
  /\ Len(ts.parts) = 2
  /\ Len(ts.parts[1]) >= 1
  /\ Len(ts.parts[1]) > 1 => ts.parts[1][1] # 0
  /\ Len(ts.parts[2]) = 2
  /\ ValueOf(ts.parts[2]) < 60

\* the positions of the segments whose score reaches the minimum in force
PassingAt == {i \in 1..Len(segments) : segments[i].brollScore >= minScoreOf(taxonomy)}

\* C14: each segment that passes the score filter yields exactly one clip, in
\* segment order, and no rejected segment yields one. The clips built so far
\* are those of the first passing segments, in order; when the loop is over
\* there is one per passing segment. Each clip's startSeconds and endSeconds
\* are the instants of its segment's startTime and endTime, and its display
\* startTime and endTime are M:SS strings that denote those instants.
C14_OneClipPerPassingSegment ==
  pc = "filtered" =>
    LET passing == PickInOrder(segments, PassingAt, Len(segments))
    IN  /\ Len(clips) <= Len(passing)
        /\ Len(clips) = Len(goodSegments) => Len(clips) = Len(passing)
        /\ \A k \in 1..Len(clips) :
             /\ clips[k].brollScore = passing[k].brollScore
             /\ clips[k].startSeconds = Instant(passing[k].startTime)
             /\ clips[k].endSeconds = Instant(passing[k].endTime)
             /\ IsMSS(clips[k].startTime) /\ IsMSS(clips[k].endTime)
             /\ Instant(clips[k].startTime) = clips[k].startSeconds
             /\ Instant(clips[k].endTime) = clips[k].endSeconds
             /\ \A j \in 1..(k - 1) : clips[j].id # clips[k].id

\* C14 witness: segments 0:10-0:13 scored 0.9 and 0:20-0:21 scored 0.4 with
\* minimum 0.5 have given one clip, 0:10-0:13, and the loop is over.
C14_ScenarioOneClip ==
  /\ pc = "filtered"
  /\ taxonomy.minimumBrollScore = 5
  /\ segments = <<[startTime |-> StringOf(<<<<0>>, <<1, 0>>>>),
                   endTime |-> StringOf(<<<<0>>, <<1, 3>>>>), brollScore |-> 9],
                  [startTime |-> StringOf(<<<<0>>, <<2, 0>>>>),
                   endTime |-> StringOf(<<<<0>>, <<2, 1>>>>), brollScore |-> 4]>>
  /\ Len(goodSegments) = 1
  /\ Len(clips) = 1
  /\ clips[1].startTime = StringOf(<<<<0>>, <<1, 0>>>>)
  /\ clips[1].endTime = StringOf(<<<<0>>, <<1, 3>>>>)
  /\ clips[1].startSeconds = 10
  /\ clips[1].endSeconds = 13

\* ------------------------------------------ previews that fail (pipeline)

\* a clip's preview is absent, or is the file this run wrote for the clip
PreviewRecorded(c) ==
  \/ c.thumbnail = <<>>
  \/ /\ c.thumbnail = c.id
     /\ c.thumbnail \in DOMAIN thumbs
     /\ thumbs[c.thumbnail] = run

\* C15: a preview that cannot be generated does not abort the video or the
\* batch. While the previews are made the video has not failed and every clip
\* built so far either has thumbnail = null or names the file written for it;
\* when the video has been saved there is one clip per accepted segment, in
\* order, and each of them is in the saved index, those without a preview
\* included.
C15_PreviewFailureKeepsClip ==
  /\ pc = "gif" =>
       /\ v \notin failed
       /\ Len(clips) <= Len(goodSegments)
       /\ \A k \in 1..Len(clips) : PreviewRecorded(clips[k])
  /\ (pc = "finally" /\ v \notin failed) =>
       /\ Len(clips) = Len(goodSegments)
       /\ \A k \in 1..Len(clips) :
            /\ clips[k].brollScore = goodSegments[k].brollScore
            /\ PreviewRecorded(clips[k])
            /\ \E i \in 1..Len(diskIndex.clips) : diskIndex.clips[i] = clips[k]

\* C15 witness: the first accepted segment's preview failed, the second one's
\* was written, and both clips are in the saved index.
C15_SavedWithoutPreview ==
  /\ pc = "finally"
  /\ v \notin failed
  /\ Len(clips) = 2
  /\ clips[1].thumbnail = <<>>
  /\ clips[2].thumbnail = clips[2].id
  /\ clips[2].id \in DOMAIN thumbs
  /\ \A k \in 1..2 : \E i \in 1..Len(diskIndex.clips) : diskIndex.clips[i] = clips[k]

\* --------------------------------- lib/classify.js:345-481, verifyClips

\* classify.js:418  const offsets = [-2, -1, 0, 1, 2, 3]
Offsets == <<-2, -1, 0, 1, 2, 3>>

\* the representative moments in play, in seconds; thumbPath ends in ".jpg",
\* the form of the frames lib/frames.js writes, so that a candidate's path
\* (classify.js:425) differs from the preview's
ThumbTimes == {1, 5}

\* a clip's flags when verifyClips is called: never set, or left mismatched
\* by an earlier pass
FlagPairs ==
  {[verified |-> "undefined", mismatch |-> "undefined"],
   [verified |-> "false", mismatch |-> "true"]}

VerifierClip ==
  {[description |-> "pouring beans", thumbTime |-> t,
    verified |-> f.verified, mismatch |-> f.mismatch] :
     t \in ThumbTimes, f \in FlagPairs}

VerifierClips == UNION {[1..n -> VerifierClip] : n \in 0..MaxClips}

\* the content of an image file: the preview made for the clip, or a frame
\* extracted by the verifier at some time
PreviewOf(clip) == [source |-> "preview", time |-> clip.thumbTime]
FrameAt(time) == [source |-> "candidate", time |-> time]

VerifyInit ==
  /\ PipelineInit
  /\ UploadIdle
  /\ ClassifyIdle
  /\ IdleButVf
  /\ vPc = "called"
  /\ vClips \in VerifierClips
  /\ \E present \in SUBSET (1..Len(vClips)) :
       previews = [k \in present |-> PreviewOf(vClips[k])]
  /\ candidateFiles = <<>>
  /\ extractFrameFn \in BOOLEAN
  /\ clipRefs = <<>> /\ mismatches = <<>> /\ mPos = 0
  /\ vBefore = [clips |-> vClips, previews |-> previews]
  /\ verdicts = [kind |-> "none"]
  /\ lastRepick = NoRepick /\ repicked = {} /\ pacing = NoPacing
  /\ rewritten = {}

\* classify.js:352-361  the clips whose thumbPath names an existing file
submittedClips(cs, files) ==
  PickInOrder([k \in 1..Len(cs) |-> k], DOMAIN files, Len(cs))

\* the batch check's answers: the request fails, the text is empty or is not
\* JSON, or it is a list of verdicts, at most one per index; an index may be
\* missing or out of range
CheckResults(n) ==
  {r \in UNION {[1..l -> [index : {Absent} \cup 0..(n + 1), matches : BOOLEAN]] :
                  l \in 0..MaxClips} :
     \A i, j \in 1..Len(r) : i # j => r[i].index # r[j].index}

CheckResponses(n) ==
  {[kind |-> "error"], [kind |-> "empty"], [kind |-> "unparsable"]}
    \cup {[kind |-> "results", results |-> r] : r \in CheckResults(n)}

\* variant: the verdict goes to the clip at that position of the input list
verdictTargetInInput(refs, idx) == idx + 1

\* classify.js:400-405  clipRefs[idx]
verdictTarget(refs, idx) == refs[idx + 1]

\* classify.js:396-407  for (const result of results); a missing index makes
\* clipRefs[idx] undefined and the assignment throws
RECURSIVE applyResults(_, _, _)
applyResults(acc, refs, results) ==
  IF results = <<>> \/ acc.threw THEN acc
  ELSE LET result == Head(results)
           idx == result.index - 1
       IN  IF result.index = Absent THEN [acc EXCEPT !.threw = TRUE]
           ELSE IF idx < 0 \/ idx >= Len(refs)
           THEN applyResults(acc, refs, Tail(results))
           ELSE LET k == verdictTarget(refs, idx)
                IN  IF result.matches
                    THEN applyResults(
                           [acc EXCEPT !.clips[k].verified = "true",
                                       !.clips[k].mismatch = "false"],
                           refs, Tail(results))
                    ELSE applyResults(
                           [acc EXCEPT !.clips[k].verified = "false",
                                       !.clips[k].mismatch = "true",
                                       !.mismatches = Append(@, k)],
                           refs, Tail(results))

\* the verdict lists of a batch answer for n images, repeated indexes
\* included
AnyCheckResults(n) ==
  UNION {[1..l -> [index : {Absent} \cup 0..(n + 1), matches : BOOLEAN]] :
           l \in 0..MaxClips}

AnyCheckResponses(n) ==
  {[kind |-> "error"], [kind |-> "empty"], [kind |-> "unparsable"]}
    \cup {[kind |-> "results", results |-> r] : r \in AnyCheckResults(n)}

\* classify.js:348-411  Step 1: submit the readable previews in one request
\* and apply the verdicts; the answer names each index at most once unless
\* anyList
VerifyCheckWith(anyList) ==
  /\ vPc = "called"
  /\ LET refs == submittedClips(vClips, previews)
     IN  /\ clipRefs' = refs
         /\ IF refs = <<>>
            THEN /\ vPc' = "returned"
                 /\ UNCHANGED <<vClips, mismatches, mPos, verdicts>>
            ELSE \E resp \in (IF anyList THEN AnyCheckResponses(Len(refs))
                             ELSE CheckResponses(Len(refs))) :
                   LET start == [clips |-> vClips, mismatches |-> <<>>, threw |-> FALSE]
                       acc == IF resp.kind = "results"
                              THEN applyResults(start, refs, resp.results)
                              ELSE start
                       goesOn == /\ resp.kind = "results"
                                 /\ ~acc.threw
                                 /\ acc.mismatches # <<>>
                                 /\ extractFrameFn
                   IN  /\ verdicts' = resp
                       /\ vClips' = acc.clips
                       /\ mismatches' = acc.mismatches
                       /\ mPos' = IF goesOn THEN 1 ELSE 0
                       /\ vPc' = IF goesOn THEN "repick" ELSE "returned"
  /\ UNCHANGED <<diskVars, procVars, histVars, upVars, clVars, restOfVf,
                 previews, candidateFiles, extractFrameFn, vBefore,
                 lastRepick, repicked, pacing, rewritten>>

\* the batch check, answered with at most one verdict per index
VerifyCheck == VerifyCheckWith(FALSE)

\* the frames that cannot be extracted for one clip: none, one, or all
FailingSets ==
  {{}} \cup {{Offsets[i]} : i \in 1..Len(Offsets)} \cup {Range(Offsets)}

\* the re-pick request's answers
PickResponses ==
  {[kind |-> "error"], [kind |-> "empty"], [kind |-> "unparsable"]}
    \cup {[kind |-> "pick", bestImage |-> b] : b \in {Absent} \cup 0..(Len(Offsets) + 1)}

\* classify.js:425  thumbPath.replace(".jpg", `_candidate_${offset}.jpg`)
candidatePath(k, offset) == <<k, offset>>

\* classify.js:422-437  the candidates extracted and read, in offset order
RECURSIVE candidateTimesOf(_, _, _, _)
candidateTimesOf(clip, k, failing, i) ==
  IF i > Len(Offsets) THEN <<>>
  ELSE LET offset == Offsets[i]
           candidateTime == clip.thumbTime + offset
           rest == candidateTimesOf(clip, k, failing, i + 1)
       IN  IF candidateTime < 0 \/ offset \in failing THEN rest
           ELSE <<[offset |-> offset, path |-> candidatePath(k, offset),
                   time |-> candidateTime]>> \o rest

\* variant: bestImage is used as a position counted from zero
bestIdxFromZero(pick) == IF Truthy(pick.bestImage) THEN pick.bestImage ELSE 1

\* classify.js:457  const bestIdx = (pick.bestImage || 1) - 1
bestIdxOf(pick) == (IF Truthy(pick.bestImage) THEN pick.bestImage ELSE 1) - 1

\* variant: a clip that cannot be re-picked ends the pass
afterRepickFailureStop == "return"

\* classify.js:438, 474-476  continue, or the catch block inside the loop
afterRepickFailure == "next clip"

\* variant: the re-pick sets verified and leaves mismatch as it is
markVerifiedOnly(clip) == [clip EXCEPT !.verified = "true"]

\* classify.js:462-463  clip.mismatch = false; clip.verified = true
markMatched(clip) == [clip EXCEPT !.mismatch = "false", !.verified = "true"]

\* classify.js:415-477  the re-pick of one mismatched clip: extract the
\* candidates, ask for the best one, copy it over the preview, clean up
Repick ==
  /\ vPc = "repick"
  /\ mPos <= Len(mismatches)
  /\ LET k == mismatches[mPos]
         clip == vClips[k]
     IN  \E failing \in FailingSets, resp \in PickResponses :
           LET candidateTimes == candidateTimesOf(clip, k, failing, 1)
               paths == {candidateTimes[i].path : i \in 1..Len(candidateTimes)}
               written == [q \in paths |->
                             FrameAt((CHOOSE c \in Range(candidateTimes) : c.path = q).time)]
                            @@ candidateFiles
               asked == candidateTimes # <<>>
               threw == asked /\ resp.kind \in {"error", "unparsable"}
               bestIdx == bestIdxOf(resp)
               valid == /\ asked
                        /\ resp.kind = "pick"
                        /\ bestIdx >= 0
                        /\ bestIdx < Len(candidateTimes)
               gaveUp == ~asked \/ threw
               over == \/ mPos + 1 > Len(mismatches)
                       \/ gaveUp /\ afterRepickFailure # "next clip"
           IN  /\ previews' = IF valid
                              THEN (k :> written[candidateTimes[bestIdx + 1].path]) @@ previews
                              ELSE previews
               /\ vClips' = IF valid
                            THEN [vClips EXCEPT ![k] = markMatched(@)]
                            ELSE vClips
               /\ candidateFiles' = IF ~asked THEN candidateFiles
                                    ELSE IF threw THEN written
                                    ELSE Without(written, paths)
               /\ lastRepick' = [clip |-> k, failing |-> failing,
                                 response |-> IF asked THEN resp ELSE [kind |-> "none"]]
               /\ repicked' = repicked \cup {k}
               /\ rewritten' = IF valid
                               THEN rewritten \cup {[clip |-> k, mismatch |-> clip.mismatch,
                                                     verified |-> clip.verified]}
                               ELSE rewritten
               /\ pacing' = IF ~asked THEN pacing
                            ELSE [since |-> IF threw THEN 0 ELSE RepickPause,
                                  gap |-> pacing.since]
               /\ mPos' = mPos + 1
               /\ vPc' = IF over THEN "returned" ELSE "repick"
  /\ UNCHANGED <<diskVars, procVars, histVars, upVars, clVars, restOfVf,
                 extractFrameFn, clipRefs, mismatches, vBefore, verdicts>>

VerifyNext ==
  \/ VerifyCheck
  \/ Repick

SpecVerify == VerifyInit /\ [][VerifyNext]_vars

\* the offsets of the frames extracted for the last re-picked clip, in order:
\* those that do not fall before the start of the video and did not fail
ExtractedOffsets ==
  SelectSeq(Offsets,
            LAMBDA o : /\ vBefore.clips[lastRepick.clip].thumbTime + o >= 0
                       /\ o \notin lastRepick.failing)

\* the last re-pick's answer names one of the extracted candidates
ValidPick ==
  /\ lastRepick.response.kind = "pick"
  /\ lastRepick.response.bestImage \in 1..Len(ExtractedOffsets)

\* C16: re-pick success. When the re-pick of a mismatched clip is answered
\* with a valid candidate index, the clip's preview file holds exactly the
\* frame of the candidate at that position among the successfully extracted
\* ones, the clip is matched (verified = true, mismatch = false); and no
\* clip's description ever differs from the one verifyClips was given.
C16_RepickSuccess ==
  /\ (lastRepick.clip # 0 /\ ValidPick) =>
       LET k == lastRepick.clip
           chosen == ExtractedOffsets[lastRepick.response.bestImage]
       IN  /\ k \in DOMAIN previews
           /\ previews[k] = FrameAt(vBefore.clips[k].thumbTime + chosen)
           /\ vClips[k].verified = "true"
           /\ vClips[k].mismatch = "false"
  /\ Len(vClips) = Len(vBefore.clips)
  /\ \A k \in 1..Len(vClips) : vClips[k].description = vBefore.clips[k].description

\* C16 witness: clip 2 was reported mismatched, the frame at offset -1 could
\* not be extracted, the answer named image 3, and clip 2's preview is now the
\* frame at offset +1 and clip 2 is matched.
C16_SecondClipRepickedAtPlusOne ==
  /\ Len(vClips) = 2
  /\ lastRepick.clip = 2
  /\ lastRepick.failing = {-1}
  /\ lastRepick.response = [kind |-> "pick", bestImage |-> 3]
  /\ vBefore.clips[2].thumbTime = 5
  /\ previews[2] = FrameAt(6)
  /\ vClips[2].verified = "true"
  /\ vClips[2].mismatch = "false"

\* the position of clip k among the clips with a preview file
SubmittedPosition(k) == Cardinality({j \in 1..k : j \in DOMAIN vBefore.previews})

\* the verdicts the loop reached: those before a verdict without an index
ReachedVerdicts ==
  IF verdicts.kind # "results" THEN {}
  ELSE {i \in 1..Len(verdicts.results) :
          \A j \in 1..i : verdicts.results[j].index # Absent}

\* the provider returned a verdict for clip k
HasVerdict(k) ==
  /\ verdicts.kind = "results"
  /\ \E i \in 1..Len(verdicts.results) :
       verdicts.results[i].index = SubmittedPosition(k)

\* C17: verifier skipping. A clip without a preview file, and a clip for
\* which no verdict came back, has the flags it had when verifyClips was
\* called, is never re-picked, and its files are untouched; a verdict with
\* index i that the loop reached is applied to the i-th submitted clip, which
\* is matched when it says so and is otherwise mismatched or re-picked.
C17_SkippedClipsKeepFlags ==
  vPc \in {"repick", "returned"} =>
    /\ \A k \in 1..Len(vClips) :
         (k \notin DOMAIN vBefore.previews \/ ~HasVerdict(k)) =>
           /\ vClips[k] = vBefore.clips[k]
           /\ k \notin repicked
           /\ k \in DOMAIN vBefore.previews => previews[k] = vBefore.previews[k]
           /\ k \notin DOMAIN vBefore.previews => k \notin DOMAIN previews
           /\ \A q \in DOMAIN candidateFiles : q[1] # k
    /\ \A i \in ReachedVerdicts :
         \A k \in DOMAIN vBefore.previews :
           SubmittedPosition(k) = verdicts.results[i].index =>
             IF verdicts.results[i].matches
             THEN vClips[k].verified = "true" /\ vClips[k].mismatch = "false"
             ELSE \/ vClips[k].verified = "false" /\ vClips[k].mismatch = "true"
                  \/ k \in repicked

\* C17 witness: clip 1, mismatched by an earlier pass, has no preview file;
\* clip 2 is the only clip submitted and the verdict with index 1 says it
\* matches: clip 1 is as it was and clip 2 is matched.
C17_VerdictForSecondClip ==
  /\ vPc = "returned"
  /\ Len(vClips) = 2
  /\ DOMAIN vBefore.previews = {2}
  /\ vBefore.clips[1].mismatch = "true"
  /\ vBefore.clips[2].verified = "undefined"
  /\ verdicts = [kind |-> "results", results |-> <<[index |-> 1, matches |-> TRUE]>>]
  /\ vClips[1] = vBefore.clips[1]
  /\ vClips[2].verified = "true"

\* C18: every candidate temp file created for a mismatched clip is deleted
\* by the time the verifier moves on to the next clip or returns, whatever
\* the outcome of the re-pick.
C18_CandidatesDeletedBeforeNextClip ==
  vPc \in {"repick", "returned"} => DOMAIN candidateFiles = {}

\* C18 witness: the re-pick request for the first mismatched clip failed, the
\* verifier is about to re-pick the next clip, and candidate files of the
\* first one are still on disk.
C18_CandidatesLeftAfterRequestError ==
  /\ vPc = "repick"
  /\ mPos = 2
  /\ lastRepick.clip = mismatches[1]
  /\ lastRepick.response.kind = "error"
  /\ \E q \in DOMAIN candidateFiles : q[1] = mismatches[1]

\* the last re-pick failed: no frame could be extracted, the request failed,
\* or the answer was not JSON
RepickFailed ==
  /\ lastRepick.clip # 0
  /\ \/ lastRepick.response.kind \in {"error", "unparsable"}
     \/ ExtractedOffsets = <<>>

\* C19: a failure while re-picking one clip leaves that clip mismatched
\* (verified = false, mismatch = true) with its preview file as it was, and
\* the pass goes on: when the verifier returns from the re-pick pass every
\* mismatched clip has been re-picked.
C19_RepickFailureIsLocal ==
  /\ RepickFailed =>
       LET k == lastRepick.clip
       IN  /\ vClips[k].verified = "false"
           /\ vClips[k].mismatch = "true"
           /\ previews[k] = vBefore.previews[k]
  /\ vPc = "repick" => mPos <= Len(mismatches)
  /\ (vPc = "returned" /\ mPos >= 1) => repicked = Range(mismatches)

\* C19 witness: two clips were mismatched; the re-pick request of the first
\* failed, it is still mismatched with its preview as it was, and the second
\* was re-picked and is matched.
C19_SecondRepickedAfterFailure ==
  /\ vPc = "returned"
  /\ Len(mismatches) = 2
  /\ \E q \in DOMAIN candidateFiles : q[1] = mismatches[1]
  /\ vClips[mismatches[1]].mismatch = "true"
  /\ previews[mismatches[1]] = vBefore.previews[mismatches[1]]
  /\ lastRepick.clip = mismatches[2]
  /\ ValidPick
  /\ vClips[mismatches[2]].verified = "true"

\* ------------------------------------- the release that fails (pipeline)

\* C20: release is best-effort. After a delete request that failed the
\* process has not ended with an error: it is at the head of the loop, about
\* to take the next video or to finish, or it has finished with exit code 0;
\* and index.json is still the document of the last save, with every clip
\* this run saved in it.
C20_ReleaseIsBestEffort ==
  released = "failed" =>
    /\ pc \in {"loop", "exited"}
    /\ exitCode # 1
    /\ pc = "exited" => exitCode = 0
    /\ diskIndex = checkpoint
    /\ savedThisRun \subseteq ClipIds(diskIndex.clips)

\* C20 witness: the first video was saved with clips, the delete request for
\* its upload failed, and the second video is about to begin.
C20_NextVideoAfterFailedRelease ==
  /\ released = "failed"
  /\ pc = "loop"
  /\ v = 2
  /\ Len(videoFiles) = 2
  /\ savedThisRun # {}
  /\ savedThisRun \subseteq ClipIds(diskIndex.clips)

\* ------------------------ lib/classify.js:243-264, waitForFileActive

\* classify.js:244-245, in milliseconds
maxWait == 120000
pollInterval == 3000

\* how long a status request takes, and how late the sleep's timer fires
RequestLatencies == {0, 1000, 5000}
TimerLags == {0, 1000}

\* what a status request ends in: a state of the file, or an error
PollOutcomes == {"ACTIVE", "FAILED", "PROCESSING", "network error", "invalid status body"}

\* variant: the loop goes on while the deadline is not exceeded
stillWaitingInclusive(elapsed) == elapsed <= maxWait

\* classify.js:248  while (Date.now() - start < maxWait)
stillWaiting(elapsed) == elapsed < maxWait

WaitInit ==
  /\ PipelineInit
  /\ UploadIdle
  /\ ClassifyIdle
  /\ IdleButWt
  /\ wPc = "test" /\ wElapsed = 0 /\ wPolls = 0 /\ wSeen = "none"
  /\ wGap = Absent /\ wErr = "none"

\* classify.js:248, 263  the loop condition: poll again, or throw the timeout
WaitTest ==
  /\ wPc = "test"
  /\ IF stillWaiting(wElapsed)
     THEN wPc' = "request" /\ wErr' = wErr
     ELSE wPc' = "thrown" /\ wErr' = "timed out"
  /\ UNCHANGED <<diskVars, procVars, histVars, upVars, clVars, restOfWt,
                 wElapsed, wPolls, wSeen, wGap>>

\* classify.js:249-256  one status request and what it reports
WaitPoll ==
  /\ wPc = "request"
  /\ wPolls' = wPolls + 1
  /\ \E latency \in RequestLatencies, outcome \in PollOutcomes :
       /\ wElapsed' = wElapsed + latency
       /\ wSeen' = outcome
       /\ wGap' = Absent
       /\ IF outcome = "ACTIVE" THEN wPc' = "returned" /\ wErr' = wErr
          ELSE IF outcome = "FAILED" THEN wPc' = "thrown" /\ wErr' = "processing failed"
          ELSE IF outcome = "PROCESSING" THEN wPc' = "sleep" /\ wErr' = wErr
          ELSE wPc' = "thrown" /\ wErr' = outcome
  /\ UNCHANGED <<diskVars, procVars, histVars, upVars, clVars, restOfWt>>

\* classify.js:258-260  still processing: await sleep(pollInterval)
WaitSleep ==
  /\ wPc = "sleep"
  /\ \E lag \in TimerLags :
       /\ wElapsed' = wElapsed + pollInterval + lag
       /\ wGap' = pollInterval + lag
  /\ wPc' = "test"
  /\ UNCHANGED <<diskVars, procVars, histVars, upVars, clVars, restOfWt,
                 wPolls, wSeen, wErr>>

WaitNext ==
  \/ WaitTest
  \/ WaitPoll
  \/ WaitSleep

SpecWait == WaitInit /\ [][WaitNext]_vars

\* every status request returns and every timer fires
SpecWaitFair == SpecWait /\ WF_vars(WaitNext)

WaitOver == wPc \in {"returned", "thrown"}

\* what holds at every moment of a wait
WaitBounded ==
  /\ wPolls <= 40
  /\ wPc = "returned" => wSeen = "ACTIVE"
  /\ wSeen = "ACTIVE" => wPc = "returned"
  /\ wSeen = "FAILED" => wPc = "thrown" /\ wErr = "processing failed"
  /\ (wPc = "request" /\ wPolls >= 1) => wGap # Absent /\ wGap >= 3000
  /\ wPc = "request" => wElapsed < 120000
  /\ wErr = "timed out" => wPc = "thrown" /\ wElapsed >= 120000 /\ wSeen = "PROCESSING"
  /\ (wPc = "test" /\ wElapsed >= 120000) => wSeen = "PROCESSING"

\* C21: file-activation polling is bounded. waitForFileActive pauses at least
\* 3 s between two polls, returns only after a poll reported ACTIVE, throws
\* with no further poll when one reported FAILED, throws the timeout error
\* when 120 s have passed without ACTIVE, never makes more than 40 polls, and,
\* when every request returns, always ends.
C21_PollingBounded == [](WaitBounded) /\ <>(WaitOver)

\* C21 witness: forty polls reported PROCESSING and the wait has timed out.
C21_TimedOutAfterFortyPolls ==
  /\ wPc = "thrown"
  /\ wErr = "timed out"
  /\ wPolls = 40

\* ---------------------------------------------------------------------
\* The remote operations of one run: analyze.js main (video loop),
\* lib/classify.js uploadVideo, waitForFileActive, classifyVideo,
\* deleteUploadedFile.  A request is in flight from the call of
\* rawRequest / postJSON until its promise settles.
\* ---------------------------------------------------------------------

UploadOps == {"initiate", "push", "poll"}

\* the exported function a request belongs to
callOf(op) ==
  IF op \in UploadOps THEN "uploadVideo"
  ELSE IF op = "generateContent" THEN "classifyVideo"
  ELSE "deleteUploadedFile"

\* variant: the finally block calls deleteUploadedFile without await
releaseNotAwaited == FALSE

\* analyze.js:296  await deleteUploadedFile(apiKey, uploadedFileName)
releaseAwaited == TRUE

\* whether main is suspended on the request
awaited(r) == r.op # "delete" \/ releaseAwaited

RemoteInit ==
  /\ PipelineInit /\ UploadIdle /\ ClassifyIdle /\ IdleButRm
  /\ rPc = "loop" /\ rVideo = 0 /\ rOp = "none" /\ rAttempt = 0 /\ rPolls = 0
  /\ rHandle = FALSE /\ inFlight = {} /\ rTimer = "none" /\ rSlept = {}
  /\ rReleased = {}

\* analyze.js:163-166  the loop head: the next video begins, or the run ends
RemoteLoop ==
  /\ rPc = "loop"
  /\ IF rVideo < MaxVideos
     THEN /\ rVideo' = rVideo + 1
          /\ rPc' = "duration"
     ELSE /\ rPc' = "finished"
          /\ rVideo' = rVideo
  /\ rHandle' = FALSE
  /\ rHeld' = <<>>
  /\ rOp' = "none" /\ rAttempt' = 0 /\ rPolls' = 0
  /\ UNCHANGED <<diskVars, procVars, histVars, upVars, clVars, restOfRmRf,
                 inFlight, rTimer, rSlept, rReleased,
                 rCreated, rAsked>>

\* analyze.js:171-194; classify.js:160-171  the local steps before the
\* upload (stale removal, id, getVideoDuration): either may throw into the
\* catch block; otherwise uploadVideo begins its first attempt
RemoteDuration ==
  /\ rPc = "duration"
  /\ \E ok \in BOOLEAN :
       IF ok
       THEN rPc' = "send" /\ rOp' = "initiate" /\ rAttempt' = 1
       ELSE rPc' = "finally" /\ rOp' = "none" /\ rAttempt' = 0
  /\ UNCHANGED <<diskVars, procVars, histVars, upVars, clVars, restOfRm,
                 rVideo, rPolls, rHandle, inFlight, rTimer, rSlept, rReleased>>

\* classify.js:84-110, 112  rawRequest / postJSON is called: the request
\* leaves, and the caller is suspended on its promise when it awaits it
RemoteSend ==
  /\ rPc = "send"
  /\ LET r == [op |-> rOp, video |-> rVideo, attempt |-> rAttempt]
     IN  /\ inFlight' = inFlight \cup {r}
         /\ rPc' = IF awaited(r) THEN "await" ELSE "loop"
         /\ rAsked' = IF rOp = "delete" THEN rAsked \cup {rHeld} ELSE rAsked
  /\ UNCHANGED <<diskVars, procVars, histVars, upVars, clVars, restOfRmRf,
                 rVideo, rOp, rAttempt, rPolls, rHandle, rTimer, rSlept,
                 rReleased, rCreated, rHeld>>

\* classify.js:226-236 (uploadVideo catch), 324-331 (classifyVideo catch):
\* the attempt failed; a backoff sleep begins unless it was the last
caught(call, n) ==
  IF (call = "uploadVideo" /\ n < MAX_RETRIES)
     \/ (call = "classifyVideo" /\ ~classifyGivesUp(n))
  THEN [pc |-> "backoff", timer |-> "running"]
  ELSE [pc |-> "finally", timer |-> "none"]

\* the promise of a request settles.  Awaited, its caller resumes:
\* classify.js:176-225 (uploadVideo), 249-260 (waitForFileActive),
\* 305-323 (classifyVideo), 269-277 (deleteUploadedFile);
\* analyze.js:194-196, 200, 296
RemoteSettle ==
  \E r \in inFlight, outcome \in {"ok", "PROCESSING", "failed"} :
    /\ outcome = "PROCESSING" => r.op = "poll"
    /\ inFlight' = inFlight \ {r}
    /\ rReleased' = IF r.op = "delete" THEN rReleased \cup {r.video}
                    ELSE rReleased
    /\ rCreated' = IF r.op = "push" /\ outcome = "ok"
                   THEN rCreated \cup {<<r.video, r.attempt>>} ELSE rCreated
    /\ rHeld' = IF r.op = "poll" /\ outcome = "ok" /\ awaited(r)
                 THEN <<r.video, r.attempt>> ELSE rHeld
    /\ IF ~awaited(r)
       THEN UNCHANGED <<rPc, rOp, rAttempt, rPolls, rHandle, rTimer>>
       ELSE IF r.op = "delete"
       THEN /\ rPc' = "loop"
            /\ UNCHANGED <<rOp, rAttempt, rPolls, rHandle, rTimer>>
       ELSE IF outcome = "failed"
       THEN /\ rPc' = caught(callOf(r.op), rAttempt).pc
            /\ rTimer' = caught(callOf(r.op), rAttempt).timer
            /\ UNCHANGED <<rOp, rAttempt, rPolls, rHandle>>
       ELSE IF outcome = "PROCESSING"
       THEN /\ rPc' = "pollSleep" /\ rTimer' = "running"
            /\ UNCHANGED <<rOp, rAttempt, rPolls, rHandle>>
       ELSE IF r.op = "initiate"
       THEN /\ rPc' = "send" /\ rOp' = "push"
            /\ UNCHANGED <<rAttempt, rPolls, rHandle, rTimer>>
       ELSE IF r.op = "push"
       THEN /\ rPc' = "send" /\ rOp' = "poll" /\ rPolls' = 0
            /\ UNCHANGED <<rAttempt, rHandle, rTimer>>
       ELSE IF r.op = "poll"
       THEN /\ rPc' = "send" /\ rOp' = "generateContent" /\ rAttempt' = 1
            /\ rHandle' = TRUE
            /\ UNCHANGED <<rPolls, rTimer>>
       ELSE /\ rPc' = "local"
            /\ UNCHANGED <<rOp, rAttempt, rPolls, rHandle, rTimer>>
    /\ UNCHANGED <<diskVars, procVars, histVars, upVars, clVars, restOfRmRf,
                   rVideo, rSlept, rAsked>>

\* classify.js:229-230, 329-331  a backoff sleep is over: the next attempt
\* of the call begins
RemoteBackoffOver ==
  /\ rPc = "backoff" /\ rTimer = "running"
  /\ rTimer' = "none"
  /\ rSlept' = rSlept \cup {<<rVideo, callOf(rOp), rAttempt>>}
  /\ rAttempt' = rAttempt + 1
  /\ rOp' = IF callOf(rOp) = "uploadVideo" THEN "initiate" ELSE rOp
  /\ rPc' = "send"
  /\ UNCHANGED <<diskVars, procVars, histVars, upVars, clVars, restOfRm,
                 rVideo, rPolls, rHandle, inFlight, rReleased>>

\* classify.js:260, 248, 263  the pause between two polls is over: the
\* deadline is tested, and the next poll is made or the wait times out
RemotePollSleepOver ==
  /\ rPc = "pollSleep" /\ rTimer = "running"
  /\ rPolls' = rPolls + 1
  /\ IF rPolls' < MaxPolls
     THEN rPc' = "send" /\ rTimer' = "none"
     ELSE /\ rPc' = caught("uploadVideo", rAttempt).pc
          /\ rTimer' = caught("uploadVideo", rAttempt).timer
  /\ UNCHANGED <<diskVars, procVars, histVars, upVars, clVars, restOfRm,
                 rVideo, rOp, rAttempt, rHandle, inFlight, rSlept, rReleased>>

\* analyze.js:204-290  filter, previews, learning and the two saves: no
\* remote operation; a throw goes to the catch block
RemoteLocal ==
  /\ rPc = "local"
  /\ rPc' = "finally"
  /\ UNCHANGED <<diskVars, procVars, histVars, upVars, clVars, restOfRm,
                 rVideo, rOp, rAttempt, rPolls, rHandle, inFlight, rTimer,
                 rSlept, rReleased>>

\* analyze.js:292-298  catch and finally: the handle is released when there
\* is one
RemoteFinally ==
  /\ rPc = "finally"
  /\ IF rHandle
     THEN rPc' = "send" /\ rOp' = "delete" /\ rAttempt' = 1
     ELSE rPc' = "loop" /\ rOp' = rOp /\ rAttempt' = rAttempt
  /\ UNCHANGED <<diskVars, procVars, histVars, upVars, clVars, restOfRm,
                 rVideo, rPolls, rHandle, inFlight, rTimer, rSlept, rReleased>>

RemoteNext ==
  \/ RemoteLoop
  \/ RemoteDuration
  \/ RemoteSend
  \/ RemoteSettle
  \/ RemoteBackoffOver
  \/ RemotePollSleepOver
  \/ RemoteLocal
  \/ RemoteFinally

SpecRemote == RemoteInit /\ [][RemoteNext]_vars

\* C22: at no time are two remote operations in flight; while a request is
\* in flight no sleep is pending; the request belongs to the video in
\* progress; a request of attempt n > 1 of a call is in flight only after
\* the backoff that followed attempt n - 1 has elapsed; and when a video
\* begins or the run ends nothing is in flight, so that the upload of the
\* next video starts after the release of the one before was answered.
C22_RemoteCallsSequential ==
  /\ Cardinality(inFlight) <= 1
  /\ \A r \in inFlight :
       /\ rTimer = "none"
       /\ r.video = rVideo
       /\ rPc = "await"
       /\ r.attempt > 1 =>
            <<r.video, callOf(r.op), r.attempt - 1>> \in rSlept
  /\ rPc \in {"loop", "duration", "finished", "backoff", "pollSleep"} =>
       inFlight = {}
  /\ \A k \in 1..MaxVideos :
       (k < rVideo \/ rPc = "finished") =>
         \A r \in inFlight : r.video # k

\* the second attempt to upload the second video is in flight, after the
\* first video's handle was released
C22_SecondVideoRetriedAfterRelease ==
  /\ inFlight = {[op |-> "initiate", video |-> 2, attempt |-> 2]}
  /\ 1 \in rReleased
  /\ <<2, "uploadVideo", 1>> \in rSlept

\* ---------------------------------------------------------------------
\* analyze.js main, lines 80-160: the setup checks, then the preparation of
\* the project, then the video loop
\* ---------------------------------------------------------------------

\* process.env.GEMINI_API_KEY: unset, empty, the placeholder of .env.example,
\* a key
ApiKeys == {"undefined", "", "your_api_key_here", "a key"}

\* the command line (with or without a project folder), the folder, the key,
\* whether `ffmpeg -version` runs, whether the project has a taxonomy.json
SetupEnvs ==
  [project : {"undefined", "a folder"}, folderExists : BOOLEAN,
   apiKey : ApiKeys, ffmpegRuns : BOOLEAN, hasTaxonomy : BOOLEAN]

\* what the process does to the project and the provider
WorkEffects ==
  {"mkdir .broll-index/thumbnails", "write taxonomy.json", "write index.json",
   "unlink preview", "remote call"}

\* variant: only an unset or empty key is refused
apiKeyUnset(apiKey) == apiKey \in {"undefined", ""}

\* analyze.js:97  !apiKey || apiKey === "your_api_key_here"
apiKeyRefused(apiKey) ==
  apiKey \in {"undefined", ""} \/ apiKey = "your_api_key_here"

SetupInit ==
  /\ PipelineInit /\ UploadIdle /\ ClassifyIdle /\ IdleButSt
  /\ sPc = "start" /\ sEffects = {} /\ sExit = Absent
  /\ sEnv \in SetupEnvs

\* analyze.js:80-104  the checks made before the first await: the project
\* argument, the folder, the key; then checkFfmpeg is called
SetupChecks ==
  /\ sPc = "start"
  /\ IF \/ sEnv.project = "undefined"
        \/ ~sEnv.folderExists
        \/ apiKeyRefused(sEnv.apiKey)
     THEN sPc' = "exited" /\ sExit' = 1 /\ sEffects' = sEffects
     ELSE /\ sPc' = "ffmpeg" /\ sExit' = sExit
          /\ sEffects' = sEffects \cup {"run ffmpeg -version"}
  /\ UNCHANGED <<diskVars, procVars, histVars, upVars, clVars, restOfSt, sEnv>>

\* analyze.js:103-109; frames.js:31-46  checkFfmpeg settles
SetupFfmpeg ==
  /\ sPc = "ffmpeg"
  /\ IF sEnv.ffmpegRuns
     THEN sPc' = "project" /\ sExit' = sExit
     ELSE sPc' = "exited" /\ sExit' = 1
  /\ UNCHANGED <<diskVars, procVars, histVars, upVars, clVars, restOfSt, sEnv,
                 sEffects>>

\* analyze.js:111-160  ensureProjectDirs; the taxonomy is loaded, or the
\* default is copied into the project; the index is loaded and the videos
\* are listed
SetupProject ==
  /\ sPc = "project"
  /\ sEffects' = sEffects \cup {"mkdir .broll-index/thumbnails"}
                   \cup (IF sEnv.hasTaxonomy THEN {} ELSE {"write taxonomy.json"})
  /\ \/ sPc' = "loop" /\ sExit' = sExit
     \/ sPc' = "exited" /\ sExit' \in {0, 1}
  /\ UNCHANGED <<diskVars, procVars, histVars, upVars, clVars, restOfSt, sEnv>>

\* analyze.js:163-301  one video is processed, as far as it gets
SetupVideo ==
  /\ sPc = "loop"
  /\ \E done \in SUBSET {"unlink preview", "remote call",
                         "write taxonomy.json", "write index.json"} :
       /\ ("write index.json" \in done) =>
            {"remote call", "write taxonomy.json"} \subseteq done
       /\ sEffects' = sEffects \cup done
  /\ \/ sPc' = "loop" /\ sExit' = sExit
     \/ sPc' = "exited" /\ sExit' = 0
  /\ UNCHANGED <<diskVars, procVars, histVars, upVars, clVars, restOfSt, sEnv>>

SetupNext ==
  \/ SetupChecks
  \/ SetupFfmpeg
  \/ SetupProject
  \/ SetupVideo

SpecSetup == SetupInit /\ [][SetupNext]_vars

\* a setup-fatal condition of the environment
SetupFatal ==
  \/ sEnv.project = "undefined"
  \/ ~sEnv.folderExists
  \/ sEnv.apiKey \in {"undefined", "", "your_api_key_here"}
  \/ ~sEnv.ffmpegRuns

\* C23: when the project argument or folder is missing, the key is missing
\* or the placeholder, or ffmpeg is not found, the process never gets past
\* the checks: it creates no directory, writes neither the taxonomy nor the
\* index, deletes no preview, makes no remote call, and exits with a
\* non-zero status.
C23_SetupFatalBeforeAnyWork ==
  SetupFatal =>
    /\ sEffects \cap WorkEffects = {}
    /\ sPc \in {"start", "ffmpeg", "exited"}
    /\ sPc = "exited" => sExit = 1

\* the process exited on the placeholder key, everything else being in order
C23_ExitedOnPlaceholderKey ==
  /\ sPc = "exited" /\ sExit = 1
  /\ sEnv.apiKey = "your_api_key_here"
  /\ sEnv.project = "a folder" /\ sEnv.folderExists /\ sEnv.ffmpegRuns

\* ---------------------------------------------------------------------
\* server.js: POST /api/projects/:slug/analyze and the analysisJobs map
\* ---------------------------------------------------------------------

\* the slugs of the registered projects, and one that findProject does not
\* know
ProjectSlugs == {"kitchen", "garden"}
RequestSlugs == ProjectSlugs \cup {"unknown"}

\* how a child process closes: exit status 0 or 1, or null after a signal
CloseCodes == {0, 1, Absent}

\* variant: a running job does not stop a new one
neverRunning(existing) == FALSE

\* server.js:289-290  existing && existing.status === "running"
alreadyRunning(existing) == existing # <<>> /\ existing.status = "running"

\* server.js:326  code === 0 ? "completed" : "failed"
statusOnClose(code) == IF code = 0 THEN "completed" ELSE "failed"

\* analysisJobs.get(slug): the job object, <<>> for undefined
jobOf(slug) ==
  IF slug \in DOMAIN analysisJobs /\ analysisJobs[slug] # 0
  THEN jobObjects[analysisJobs[slug]]
  ELSE <<>>

ServerInit ==
  /\ PipelineInit /\ UploadIdle /\ ClassifyIdle /\ IdleButJb
  /\ analysisJobs = [s \in ProjectSlugs |-> 0]
  /\ jobObjects = <<>> /\ children = {}
  /\ served = 0 /\ lastReply = <<>>

\* server.js:285-331  the handler of POST /api/projects/:slug/analyze
PostAnalyze(slug) ==
  /\ served < MaxRequests
  /\ served' = served + 1
  /\ IF slug \notin ProjectSlugs
     THEN /\ lastReply' = [code |-> 404, slug |-> slug, job |-> 0]
          /\ UNCHANGED <<analysisJobs, jobObjects, children>>
     ELSE IF alreadyRunning(jobOf(slug))
     THEN /\ lastReply' = [code |-> 409, slug |-> slug,
                           job |-> analysisJobs[slug]]
          /\ UNCHANGED <<analysisJobs, jobObjects, children>>
     ELSE LET id == Len(jobObjects) + 1
              job == [slug |-> slug, status |-> "running",
                      exitCode |-> "undefined", log |-> 0]
          IN  /\ jobObjects' = Append(jobObjects, job)
              /\ analysisJobs' = [analysisJobs EXCEPT ![slug] = id]
              /\ children' = children \cup {id}
              /\ lastReply' = [code |-> 200, slug |-> slug, job |-> id]
  /\ UNCHANGED <<diskVars, procVars, histVars, upVars, clVars, restOfJb>>

\* server.js:313-322  the child writes to stdout or stderr: the lines are
\* pushed to the job's log
ChildOutput(id) ==
  /\ id \in children
  /\ jobObjects[id].log < MaxLogLines
  /\ jobObjects' = [jobObjects EXCEPT ![id].log = @ + 1]
  /\ UNCHANGED <<diskVars, procVars, histVars, upVars, clVars, restOfJb,
                 analysisJobs, children, served, lastReply>>

\* server.js:325-329  the child's close event
ChildClose(id, code) ==
  /\ id \in children
  /\ children' = children \ {id}
  /\ jobObjects' = [jobObjects EXCEPT ![id].status = statusOnClose(code),
                                      ![id].exitCode = code]
  /\ UNCHANGED <<diskVars, procVars, histVars, upVars, clVars, restOfJb,
                 analysisJobs, served, lastReply>>

ServerNext ==
  \/ \E slug \in RequestSlugs : PostAnalyze(slug)
  \/ \E id \in children : ChildOutput(id)
  \/ \E id \in children, code \in CloseCodes : ChildClose(id, code)

SpecServer == ServerInit /\ [][ServerNext]_vars

\* the job objects of a slug that are running
RunningJobs(slug) ==
  {i \in 1..Len(jobObjects) :
     jobObjects[i].slug = slug /\ jobObjects[i].status = "running"}

OneRunningPerSlug ==
  \A slug \in ProjectSlugs :
    /\ Cardinality(RunningJobs(slug)) <= 1
    /\ \A i \in RunningJobs(slug) : analysisJobs[slug] = i /\ i \in children

\* a request for a slug whose job is running is answered 409 and changes
\* neither the map, nor a job object, nor the set of child processes
RejectedWhileRunning ==
  (served' # served /\ \E slug \in ProjectSlugs :
      lastReply'.slug = slug /\ RunningJobs(slug) # {}) =>
    /\ lastReply'.code = 409
    /\ lastReply'.job = analysisJobs[lastReply'.slug]
    /\ analysisJobs' = analysisJobs
    /\ jobObjects' = jobObjects
    /\ children' = children

\* a status changes only from running, when the child closes, to completed
\* for exit code 0 and to failed for any other
StatusChangesOnClose ==
  \A i \in 1..Len(jobObjects) :
    jobObjects'[i].status # jobObjects[i].status =>
      /\ jobObjects[i].status = "running"
      /\ i \in children /\ i \notin children'
      /\ jobObjects'[i].status =
           IF jobObjects'[i].exitCode = 0 THEN "completed" ELSE "failed"

\* C24: at most one job per slug is running; a POST analyze for a slug whose
\* job is running gets 409, starts no child process and leaves the job
\* object as it was; a job's status changes only from running to completed
\* (exit code 0) or failed (any other) when its child process closes.
C24_SingleFlightPerProject ==
  /\ [](OneRunningPerSlug)
  /\ [][RejectedWhileRunning /\ StatusChangesOnClose]_vars

\* a request was rejected while the slug's second job was running
C24_RejectedDuringSecondJob ==
  /\ lastReply # <<>> /\ lastReply.code = 409 /\ lastReply.job = 2
  /\ Len(jobObjects) = 2
  /\ jobObjects[1].slug = jobObjects[2].slug
  /\ jobObjects[1].status = "failed" /\ jobObjects[2].status = "running"

\* C25: the i-th wait of a classifyVideo call, made after i - 1 retries, is
\* 5 s x i (5 s, then 10 s), and no wait follows the last failed attempt.
C25_ClassifyBackoffSchedule ==
  /\ \A i \in 1..Len(clSleeps) : clSleeps[i] = 5000 * i
  /\ clPc = "thrown" => Len(clSleeps) = Len(clErr) - 1

\* the first attempt has failed and the call sleeps 10 s before its first
\* retry
C25_FirstWaitIsTenSeconds ==
  /\ clPc = "sleep"
  /\ Len(clErr) = 1
  /\ clSleeps = <<10000>>

\* C26: whenever a re-pick request follows an earlier one of the same call,
\* the call has slept at least 2 s between the two, also when the earlier
\* request failed or its answer could not be parsed.
C26_RepickRequestsPaced ==
  pacing.gap # Absent => pacing.gap >= 2000

\* the first clip's re-pick request failed and the second clip's request
\* was sent with no sleep in between
C26_RequestRightAfterFailure ==
  /\ pacing.gap = 0
  /\ mismatches = <<1, 2>>
  /\ lastRepick.clip = 2
  /\ lastRepick.response.kind # "none"

\* C27: a batch answer whose verdicts all carry an index outside
\* 1..(number of submitted images) changes no clip; and a re-pick answer
\* whose bestImage is missing, zero or outside 1..(number of candidates)
\* leaves the clip mismatched and its preview file as it was.
C27_BadIndexesSkipped ==
  /\ ( /\ vPc \in {"repick", "returned"}
       /\ verdicts.kind = "results"
       /\ \A i \in 1..Len(verdicts.results) :
            verdicts.results[i].index \notin 1..Len(clipRefs) ) =>
       /\ vClips = vBefore.clips
       /\ previews = vBefore.previews
       /\ mismatches = <<>>
  /\ ( /\ lastRepick.clip # 0
       /\ lastRepick.response.kind = "pick"
       /\ ExtractedOffsets # <<>>
       /\ lastRepick.response.bestImage \notin 1..Len(ExtractedOffsets) ) =>
       LET k == lastRepick.clip
       IN  /\ vClips[k].mismatch = "true"
           /\ vClips[k].verified = "false"
           /\ previews[k] = vBefore.previews[k]

\* the re-pick answer had no bestImage: the first candidate was copied over
\* the clip's preview and the clip was marked as matched
C27_MissingBestImagePicksFirst ==
  /\ lastRepick.clip = 1
  /\ lastRepick.failing = {}
  /\ lastRepick.response = [kind |-> "pick", bestImage |-> Absent]
  /\ vBefore.clips[1].thumbTime = 5
  /\ previews[1] = FrameAt(3)
  /\ vClips[1].mismatch = "false" /\ vClips[1].verified = "true"

\* ---------------------------------------------------------------------
\* verifyClips when the provider's verdict list may name one index more
\* than once
\* ---------------------------------------------------------------------

\* classify.js:348-411  the batch check, answered with any verdict list
VerifyCheckAny == VerifyCheckWith(TRUE)

VerifyAnyNext ==
  \/ VerifyCheckAny
  \/ Repick

\* verifyClips is called with one clip: enough for an index to be repeated
VerifyAnyInit == VerifyInit /\ Len(vClips) = 1

SpecVerifyAny == VerifyAnyInit /\ [][VerifyAnyNext]_vars

\* C28: a preview file is overwritten only in a re-pick, only for a clip
\* that is mismatched at that time and only when a frame-extraction function
\* was supplied; the candidate frames are those at thumbTime + offset, for
\* the offsets -2..+3 with a non-negative time, of clips reported as
\* mismatched; whatever the verdict list.
C28_RepickOnlyWhileMismatched ==
  /\ \A w \in rewritten :
       w.mismatch = "true" /\ w.verified = "false" /\ extractFrameFn
  /\ \A k \in DOMAIN previews :
       previews[k] # vBefore.previews[k] => \E w \in rewritten : w.clip = k
  /\ \A q \in DOMAIN candidateFiles :
       /\ extractFrameFn
       /\ q[1] \in Range(mismatches)
       /\ q[2] \in Range(Offsets)
       /\ vBefore.clips[q[1]].thumbTime + q[2] >= 0
       /\ candidateFiles[q] = FrameAt(vBefore.clips[q[1]].thumbTime + q[2])
  /\ ~extractFrameFn => repicked = {} /\ previews = vBefore.previews

\* the batch answer said of image 1 that it does not match and then that
\* it matches: the clip, matched, was re-picked and its preview overwritten
C28_MatchedClipRewritten ==
  /\ verdicts = [kind |-> "results",
                 results |-> <<[index |-> 1, matches |-> FALSE],
                               [index |-> 1, matches |-> TRUE]>>]
  /\ [clip |-> 1, mismatch |-> "false", verified |-> "true"] \in rewritten
  /\ previews[1] # vBefore.previews[1]

\* the numeric suffixes of the keys of index.videos
VideoNumbers == {ValueOf(k) : k \in DOMAIN index.videos}

\* while a video is in progress and not yet added
VideoPending == pc \in {"upload", "classify", "gif"}

\* the id of the video in progress is the next after the largest key, is
\* not a key, and no key is an entry of the same file
IdIsNext ==
  VideoPending =>
    /\ ValueOf(videoId) = IF VideoNumbers = {} THEN 1 ELSE Max(VideoNumbers) + 1
    /\ Len(videoId) = 3
    /\ videoId \notin DOMAIN index.videos
    /\ \A k \in DOMAIN index.videos : index.videos[k].filename # filename

\* adding the video keeps every entry the index had
AddKeepsEntries ==
  (pc = "gif" /\ pc' = "finally") =>
    \A k \in DOMAIN index.videos :
      /\ k \in DOMAIN index'.videos
      /\ index'.videos[k] = index.videos[k]

\* C29: the id of a newly analysed video is vid_ followed by the largest
\* numeric suffix among the keys of index.videos plus one, or 001 when there
\* is no key, computed after the entries of the same filename were removed;
\* it is not a key of index.videos, and adding the video leaves every other
\* entry in place.
C29_VideoIdIsFresh ==
  /\ [](IdIsNext)
  /\ [][AddKeepsEntries]_vars

\* a file is re-analysed after its entry vid_001 was removed: the index
\* holds vid_002 only and the new id is vid_003
C29_ThirdIdAfterRemoval ==
  /\ pc = "gif"
  /\ DOMAIN index.videos = {<<0, 0, 2>>}
  /\ videoId = <<0, 0, 3>>
  /\ run = 2

\* ---------------------------------------------------------------------
\* analyze.js main, lines 163-301: per video, the filter, the learning of
\* terms, saveTaxonomy and saveIndex
\* ---------------------------------------------------------------------

\* a segment that reports one piece of equipment
LearnableSegment(score, term) ==
  [g \in SegmentFields \cup {"brollScore"} |->
     IF g = "brollScore" THEN score
     ELSE IF g = "equipment" THEN [kind |-> "string", value |-> term]
     ELSE Undefined]

\* the provider's answers for one video
LearnableAnswers ==
  UNION {[1..n -> {LearnableSegment(s, t) : s \in PipelineScores, t \in KnownTerms}] :
           n \in 0..MaxSegments}

\* variant: every reported segment is harvested
learnedFromAll(segs, good) == segs

\* analyze.js:268  const allSegments = [...goodSegments]
learnedSegments(segs, good) == good

NoTerms == [f \in ListFields |-> <<>>]

SavesInit ==
  /\ PipelineInit /\ UploadIdle /\ ClassifyIdle /\ IdleButSv
  /\ lPc = "loop" /\ lVideo = 0 /\ lSegments = <<>> /\ lGood = <<>>
  /\ lTaxonomy = NoTerms /\ lDiskTax = NoTerms /\ lDiskIndex = {}
  /\ lLog = <<>>
  /\ lFailedAt = [k \in 1..MaxVideos |-> "none"]

\* analyze.js:163-169  the loop head: the next video begins, or the loop ends
SavesBegin ==
  /\ lPc = "loop"
  /\ IF lVideo < MaxVideos
     THEN /\ lVideo' = lVideo + 1
          /\ lLog' = Append(lLog, [op |-> "begin", video |-> lVideo + 1])
          /\ lPc' = "classify"
     ELSE /\ lPc' = "finished"
          /\ UNCHANGED <<lVideo, lLog>>
  /\ lSegments' = <<>> /\ lGood' = <<>>
  /\ UNCHANGED <<diskVars, procVars, histVars, upVars, clVars, restOfSv,
                 lTaxonomy, lDiskTax, lDiskIndex, lFailedAt>>

\* analyze.js:171-266  stale removal, duration, upload and classification,
\* any of which may throw; the filter; the previews and the clips; the video
\* and its clips are added to the in-memory index
SavesClassify ==
  /\ lPc = "classify"
  /\ \/ \E segs \in LearnableAnswers :
          /\ lSegments' = segs
          /\ lGood' = filterByScore(segs, minScoreOf(taxonomy))
          /\ lPc' = "learn"
          /\ lFailedAt' = lFailedAt
     \/ /\ lPc' = "finally"
        /\ lFailedAt' = [lFailedAt EXCEPT ![lVideo] = "before learning"]
        /\ UNCHANGED <<lSegments, lGood>>
  /\ UNCHANGED <<diskVars, procVars, histVars, upVars, clVars, restOfSv,
                 lVideo, lTaxonomy, lDiskTax, lDiskIndex, lLog>>

\* analyze.js:268-284  the terms of allSegments are merged into the taxonomy
SavesLearn ==
  /\ lPc = "learn"
  /\ LET allSegments == learnedSegments(lSegments, lGood)
     IN  /\ lTaxonomy' = learnTerms(lTaxonomy, allSegments)
         /\ lLog' = Append(lLog, [op |-> "learn", video |-> lVideo,
                                  answer |-> lSegments, from |-> allSegments])
  /\ lPc' = "saveTaxonomy"
  /\ UNCHANGED <<diskVars, procVars, histVars, upVars, clVars, restOfSv,
                 lVideo, lSegments, lGood, lDiskTax, lDiskIndex, lFailedAt>>

\* analyze.js:285; lib/project.js:54-57  saveTaxonomy writes taxonomy.json,
\* or throws
SavesTaxonomy ==
  /\ lPc = "saveTaxonomy"
  /\ \/ /\ lDiskTax' = lTaxonomy
        /\ lLog' = Append(lLog, [op |-> "write taxonomy", video |-> lVideo])
        /\ lPc' = "saveIndex"
        /\ lFailedAt' = lFailedAt
     \/ /\ lPc' = "finally"
        /\ lFailedAt' = [lFailedAt EXCEPT ![lVideo] = "saveTaxonomy"]
        /\ UNCHANGED <<lDiskTax, lLog>>
  /\ UNCHANGED <<diskVars, procVars, histVars, upVars, clVars, restOfSv,
                 lVideo, lSegments, lGood, lTaxonomy, lDiskIndex>>

\* analyze.js:289; lib/project.js:39-43  saveIndex writes index.json, or
\* throws
SavesIndex ==
  /\ lPc = "saveIndex"
  /\ \/ /\ lDiskIndex' = lDiskIndex \cup {lVideo}
        /\ lLog' = Append(lLog, [op |-> "write index", video |-> lVideo])
        /\ lFailedAt' = lFailedAt
     \/ /\ lFailedAt' = [lFailedAt EXCEPT ![lVideo] = "saveIndex"]
        /\ UNCHANGED <<lDiskIndex, lLog>>
  /\ lPc' = "finally"
  /\ UNCHANGED <<diskVars, procVars, histVars, upVars, clVars, restOfSv,
                 lVideo, lSegments, lGood, lTaxonomy, lDiskTax>>

\* analyze.js:292-300  catch, finally, the end of the loop body
SavesFinally ==
  /\ lPc = "finally"
  /\ lPc' = "loop"
  /\ UNCHANGED <<diskVars, procVars, histVars, upVars, clVars, restOfSv,
                 lVideo, lSegments, lGood, lTaxonomy, lDiskTax, lDiskIndex,
                 lLog, lFailedAt>>

SavesNext ==
  \/ SavesBegin
  \/ SavesClassify
  \/ SavesLearn
  \/ SavesTaxonomy
  \/ SavesIndex
  \/ SavesFinally

SpecSaves == SavesInit /\ [][SavesNext]_vars

\* the positions in the log of what was done for video k
EventsOf(k, op) == {i \in 1..Len(lLog) : lLog[i].video = k /\ lLog[i].op = op}

\* the terms of the segments of an answer whose score is 0.5 or more
PassingTerms(answer) ==
  {answer[i]["equipment"].value :
     i \in {j \in 1..Len(answer) : answer[j]["brollScore"] >= 5}}

\* C30: for a video that was saved, learning ran exactly once, on the
\* segments that passed the filter and on no other, the taxonomy was written
\* after it and the index after the taxonomy, all before the next video
\* began; a video that failed before learning wrote neither file; and the
\* taxonomy holds no term that did not come from a passing segment.
C30_LearnThenSaveInOrder ==
  /\ \A k \in 1..MaxVideos :
       /\ \A op \in {"begin", "learn", "write taxonomy", "write index"} :
            Cardinality(EventsOf(k, op)) <= 1
       /\ \A i \in EventsOf(k, "write index") :
            \E j \in EventsOf(k, "write taxonomy") : j < i
       /\ \A i \in EventsOf(k, "write taxonomy") :
            \E j \in EventsOf(k, "learn") : j < i
       /\ \A i \in EventsOf(k, "learn") :
            LET answer == lLog[i].answer
            IN  lLog[i].from = SelectSeq(answer, LAMBDA s : s["brollScore"] >= 5)
       /\ k \in lDiskIndex <=> EventsOf(k, "write index") # {}
       /\ \A i \in EventsOf(k + 1, "begin") :
            \A j \in 1..Len(lLog) : lLog[j].video = k => j < i
       /\ lFailedAt[k] = "before learning" =>
            /\ k \notin lDiskIndex
            /\ \A op \in {"learn", "write taxonomy", "write index"} :
                 EventsOf(k, op) = {}
  /\ \A f \in ListFields : \A i \in 1..Len(lTaxonomy[f]) :
       \E j \in 1..Len(lLog) :
         /\ lLog[j].op = "learn"
         /\ f = "equipment"
         /\ lTaxonomy[f][i] \in PassingTerms(lLog[j].answer)
  /\ \A f \in ListFields : \A i \in 1..Len(lDiskTax[f]) :
       \E j \in 1..Len(lTaxonomy[f]) : lTaxonomy[f][j] = lDiskTax[f][i]

\* the first video failed before learning; the second was saved, its
\* rejected segment's term was not learned
C30_SecondVideoSavedAfterFailure ==
  /\ lFailedAt[1] = "before learning"
  /\ lDiskIndex = {2}
  /\ lPc = "finished"
  /\ lSegments = <<>>
  /\ lDiskTax["equipment"] = <<"Grinder">>
  /\ \E i \in EventsOf(2, "learn") :
       lLog[i].answer = <<LearnableSegment(7, "Grinder"), LearnableSegment(3, "kettle")>>

\* C31: in a run started with --new-only, no file that had an entry in
\* index.videos when the run started is among the videos processed; what is
\* persisted for each such file (video entries, clips, preview files) stays
\* as it was; and when no file remains the run ends with the index file as
\* it was.
C31_NewOnlySkipsIndexed ==
  (atStart.newOnly /\ pc \in RunningPcs \cup {"exited"}) =>
    /\ \A i \in 1..Len(videoFiles) : videoFiles[i] \notin DOMAIN atStart.kept
    /\ \A i \in started : videoFiles[i] \notin DOMAIN atStart.kept
    /\ \A f \in DOMAIN atStart.kept :
         PersistedFor(diskIndex, thumbs, f) = atStart.kept[f]
    /\ (videoFiles = <<>> /\ pc = "exited") =>
         /\ exitCode = 0
         /\ diskIndex = checkpoint

\* the second run, with --new-only, processes b.mp4 only: a.mp4 was indexed
\* by the first
C31_SecondRunTakesNewFile ==
  /\ atStart.newOnly
  /\ run = 2
  /\ DOMAIN atStart.kept = {"a.mp4"}
  /\ atStart.kept["a.mp4"].clips # {}
  /\ videoFiles = <<"b.mp4">>
  /\ pc = "finally"
  /\ Len(diskIndex.clips) > Cardinality(atStart.kept["a.mp4"].clips)

\* ---------------------------------------------------------------------------
\* server.js:313-322  the handlers of the child's output on one analysis job
\* ---------------------------------------------------------------------------
LogLimit == 500
LogKeep == 300
MaxOutputs == 4

\* the numbers of non-empty lines one chunk of output splits into
ChunkLines == {1, 200, 300}

\* Array.prototype.slice(-n): the last n elements, all of them when there are fewer
sliceLast(arr, n) ==
  IF Len(arr) <= n THEN arr ELSE SubSeq(arr, Len(arr) - n + 1, Len(arr))

\* the lines of one chunk, numbered after those already logged
linesOf(count, isErr) ==
  [i \in 1..count |-> [n |-> (IF pushed = <<>> THEN 0 ELSE pushed[Len(pushed)].n) + i, err |-> isErr]]

\* server.js:313-317  child.stdout.on("data")
ChildStdout(count) ==
  /\ outputs < MaxOutputs
  /\ LET after == jobLog \o linesOf(count, FALSE)
     IN  /\ pushed' = after
         /\ jobLog' = IF Len(after) > LogLimit THEN sliceLast(after, LogKeep) ELSE after
  /\ lastStream' = "stdout"
  /\ outputs' = outputs + 1
  /\ UNCHANGED <<diskVars, procVars, histVars, upVars, clVars, restOfLg>>

\* server.js:319-322  child.stderr.on("data")
ChildStderr(count) ==
  /\ outputs < MaxOutputs
  /\ LET after == jobLog \o linesOf(count, TRUE)
     IN  /\ pushed' = after
         /\ jobLog' = after
  /\ lastStream' = "stderr"
  /\ outputs' = outputs + 1
  /\ UNCHANGED <<diskVars, procVars, histVars, upVars, clVars, restOfLg>>

LogInit == PipelineInit /\ UploadIdle /\ ClassifyIdle /\ AuxIdle

LogNext ==
  \/ \E count \in ChunkLines : ChildStdout(count)
  \/ \E count \in ChunkLines : ChildStderr(count)

SpecLog == LogInit /\ [][LogNext]_vars

\* what the stdout handler guarantees for the events it handles
StdoutEventBounded ==
  lastStream = "stdout" =>
    /\ Len(jobLog) <= LogLimit
    /\ Len(pushed) > LogLimit => jobLog = sliceLast(pushed, LogKeep)

\* C32: after the handling of any output event of the child, stdout or stderr, job.log holds at most 500 lines, and whenever the push took it past 500 it holds exactly the most recent 300 lines.
C32_JobLogBounded ==
  lastStream # "" =>
    /\ Len(jobLog) <= LogLimit
    /\ Len(pushed) > LogLimit => jobLog = sliceLast(pushed, LogKeep)

C32_StderrGrowsPastLimit ==
  /\ lastStream = "stderr"
  /\ Len(jobLog) > LogLimit
  /\ jobLog = pushed

\* ---------------------------------------------------------------------------
\* analyze.js:237-244  the tags of a new clip
\* ---------------------------------------------------------------------------

\* what the provider's JSON may put in a tag field besides a string or an array
OtherValues ==
  {[kind |-> "null"], [kind |-> "number", value |-> 0], [kind |-> "number", value |-> 5],
   [kind |-> "boolean", value |-> FALSE], [kind |-> "boolean", value |-> TRUE]}
TagValues == FieldValues \cup OtherValues

\* the list-typed tag fields of a clip, and the segment fields toArray reads for them
PlainTagFields == {"equipment", "technique", "products", "other"}
TagFields == PlainTagFields \cup {"subjectDescriptors"}
TagSources == TagFields \cup {"beans", "shotType"}

\* JavaScript truthiness of a field value
truthyValue(val) ==
  CASE val.kind = "array" -> TRUE
    [] val.kind = "string" -> val.value # ""
    [] val.kind = "number" -> val.value # 0
    [] val.kind = "boolean" -> val.value
    [] OTHER -> FALSE

\* variant: the legacy field is never read
firstOnly(a, b) == a

\* analyze.js:241  seg.subjectDescriptors || seg.beans
orElse(a, b) == IF truthyValue(a) THEN a ELSE b

\* analyze.js:237-244  tags: { shotType, equipment, technique, subjectDescriptors, products, other }
clipTags(seg) ==
  [f \in TagFields \cup {"shotType"} |->
     IF f = "shotType" THEN seg.shotType
     ELSE IF f = "subjectDescriptors" THEN toArray(orElse(seg.subjectDescriptors, seg.beans))
     ELSE toArray(seg[f])]

\* a segment that differs from an empty one in one plain tag field, or in
\* subjectDescriptors and beans
TagsInit ==
  /\ PipelineInit
  /\ UploadIdle
  /\ ClassifyIdle
  /\ IdleButFn
  /\ fnPc = "tags"
  /\ \/ \E f \in PlainTagFields, val \in TagValues :
          fnArgs = [segment |-> [g \in TagSources |->
                                   IF g = "shotType" THEN [kind |-> "string", value |-> "closeup"]
                                   ELSE IF g = f THEN val ELSE Undefined]]
     \/ \E sd \in TagValues, legacy \in TagValues :
          fnArgs = [segment |-> [g \in TagSources |->
                                   IF g = "shotType" THEN [kind |-> "string", value |-> "closeup"]
                                   ELSE IF g = "subjectDescriptors" THEN sd
                                   ELSE IF g = "beans" THEN legacy ELSE Undefined]]
  /\ fnResult = <<>>

\* analyze.js:229-252  clips.push({ ..., tags: {...}, ... })
BuildTags ==
  /\ fnPc = "tags"
  /\ fnResult' = clipTags(fnArgs.segment)
  /\ fnPc' = "tagged"
  /\ UNCHANGED <<diskVars, procVars, histVars, upVars, clVars, restOfFn, fnArgs>>

TagsNext == BuildTags

SpecTags == TagsInit /\ [][TagsNext]_vars

\* the array a field value stands for: an array as it is, a non-empty string
\* alone, nothing otherwise
AsList(val) ==
  IF val.kind = "array" THEN val.items
  ELSE IF val.kind = "string" /\ val.value # "" THEN <<val.value>>
  ELSE <<>>

\* the segment carries a value in the field: something other than undefined,
\* null, the empty string, zero or false
HasValue(val) ==
  /\ val.kind \notin {"undefined", "null"}
  /\ val \notin {[kind |-> "string", value |-> ""], [kind |-> "number", value |-> 0],
               [kind |-> "boolean", value |-> FALSE]}

\* C33: every list-typed tag field of a new clip is an array: the provider's array as it is, a single non-empty string as a one-element array, the empty array for an absent or invalid value; subjectDescriptors is taken from the legacy field beans when the segment carries no subjectDescriptors value.
C33_TagFieldsAreArrays ==
  fnPc = "tagged" =>
    LET seg == fnArgs.segment
    IN  /\ \A f \in TagFields : fnResult[f] \in Seq(ReportedTerms)
        /\ \A f \in PlainTagFields : fnResult[f] = AsList(seg[f])
        /\ fnResult.subjectDescriptors =
             AsList(IF HasValue(seg.subjectDescriptors) THEN seg.subjectDescriptors ELSE seg.beans)

C33_LegacyFieldUsed ==
  /\ fnPc = "tagged"
  /\ fnArgs.segment.subjectDescriptors = Undefined
  /\ fnArgs.segment.beans = [kind |-> "string", value |-> "kettle"]
  /\ fnResult.subjectDescriptors = <<"kettle">>

\* ---------------------------------------------------------------------------
\* server.js:209-238  the clip routes: PATCH and DELETE /api/projects/:slug/clips/:id
\* ---------------------------------------------------------------------------
MaxEdits == 2

\* variant: the filter drops every clip of the video the clip belongs to
withoutClipsOfVideo(cs, id) ==
  SelectSeq(cs, LAMBDA c : \A i \in 1..Len(cs) : cs[i].id = id => cs[i].videoId # c.videoId)

\* server.js:231  index.clips.filter((c) => c.id !== req.params.id)
withoutClip(cs, id) == SelectSeq(cs, LAMBDA c : c.id # id)

\* server.js:216  index.clips.find((c) => c.id === req.params.id): the position, 0 when none
findClip(cs, id) ==
  IF id \in ClipIds(cs) THEN CHOOSE i \in 1..Len(cs) : cs[i].id = id /\ \A j \in 1..(i - 1) : cs[j].id # id
  ELSE 0

\* server.js:219-220  Object.assign(clip, req.body); clip.userEdited = true
\* (the body sets brollScore or nothing)
patched(clip, body) ==
  [clip EXCEPT !.brollScore = IF body = Absent THEN @ ELSE body, !.userEdited = TRUE]

PatchBodies == {Absent, 9}
RequestIds == {clipIdOf(n) : n \in 1..(2 * MaxClips + 1)}

\* the reply and the effect of one clip request
Edited(route, id, found, status, wrote) ==
  /\ edits' = edits + 1
  /\ lastEdit' = [route |-> route, id |-> id, found |-> found, before |-> diskIndex,
                  status |-> status, wrote |-> wrote]
  /\ srvDeleted' = IF wrote /\ route = "DELETE" /\ pc \in RunningPcs
                   THEN srvDeleted \cup {<<run, id>>} ELSE srvDeleted
  /\ srvEdited' = IF wrote /\ route = "PATCH" /\ pc \in RunningPcs
                  THEN srvEdited \cup {<<run, id>>} ELSE srvEdited

\* server.js:225-238  app.delete("/api/projects/:slug/clips/:id"); loadIndex
\* throws on an index.json that does not parse and Express replies 500
DeleteClipRoute(found, id) ==
  /\ edits < MaxEdits
  /\ IF ~found THEN diskIndex' = diskIndex /\ Edited("DELETE", id, found, 404, FALSE)
     ELSE IF diskIndex = Unparsable THEN diskIndex' = diskIndex /\ Edited("DELETE", id, found, 500, FALSE)
     ELSE LET kept == withoutClip(diskIndex.clips, id)
          IN  IF Len(kept) = Len(diskIndex.clips)
              THEN diskIndex' = diskIndex /\ Edited("DELETE", id, found, 404, FALSE)
              ELSE /\ diskIndex' = saveIndex([videos |-> diskIndex.videos, clips |-> kept])
                   /\ Edited("DELETE", id, found, 200, TRUE)
  /\ UNCHANGED <<thumbs, taxonomy, procVars, histVars, upVars, clVars, restOfEd>>

\* server.js:210-222  app.patch("/api/projects/:slug/clips/:id")
PatchClipRoute(found, id, body) ==
  /\ edits < MaxEdits
  /\ IF ~found THEN diskIndex' = diskIndex /\ Edited("PATCH", id, found, 404, FALSE)
     ELSE IF diskIndex = Unparsable THEN diskIndex' = diskIndex /\ Edited("PATCH", id, found, 500, FALSE)
     ELSE LET at == findClip(diskIndex.clips, id)
          IN  IF at = 0
              THEN diskIndex' = diskIndex /\ Edited("PATCH", id, found, 404, FALSE)
              ELSE /\ diskIndex' = saveIndex([videos |-> diskIndex.videos,
                                              clips |-> [diskIndex.clips EXCEPT
                                                           ![at] = patched(@, body)]])
                   /\ Edited("PATCH", id, found, 200, TRUE)
  /\ UNCHANGED <<thumbs, taxonomy, procVars, histVars, upVars, clVars, restOfEd>>

\* an index.json with two analysed videos, of na and nb clips
RouteClip(n, vid) ==
  [id |-> clipIdOf(n), videoId |-> vid, thumbnail |-> clipIdOf(n), brollScore |-> 5,
   userEdited |-> FALSE]
RouteIndex(na, nb) ==
  LET first == padStart(Digits(1), VideoIdWidth)
      second == padStart(Digits(2), VideoIdWidth)
  IN  addToIndex(addToIndex(EmptyIndex, first, "a.mp4", [i \in 1..na |-> RouteClip(i, first)]),
                 second, "b.mp4", [i \in 1..nb |-> RouteClip(na + i, second)])

\* the server is up over a project whose index.json earlier runs wrote, or left cut short
RoutesInit ==
  /\ \E na \in 0..MaxClips, nb \in 0..MaxClips, cut \in BOOLEAN :
       diskIndex = IF cut THEN Unparsable ELSE RouteIndex(na, nb)
  /\ thumbs = <<>>
  /\ taxonomy \in [minimumBrollScore : PipelineMinScores]
  /\ pc = "idle"
  /\ segments = <<>>
  /\ ProcessInit
  /\ ObservationInit
  /\ UploadIdle
  /\ ClassifyIdle
  /\ AuxIdle

RoutesNext ==
  \/ \E found \in BOOLEAN, id \in RequestIds : DeleteClipRoute(found, id)
  \/ \E found \in BOOLEAN, id \in RequestIds, body \in PatchBodies : PatchClipRoute(found, id, body)

SpecRoutes == RoutesInit /\ [][RoutesNext]_vars

\* C34: a DELETE of a clip id on a project whose index can be read removes exactly the clips with that id from index.json and leaves index.videos and every other clip as they were, in order; when no clip has the id the reply is 404 and index.json is not written.
C34_DeleteRemovesOnlyThatClip ==
  (lastEdit.route = "DELETE" /\ lastEdit.found /\ lastEdit.before # Unparsable) =>
    LET before == lastEdit.before
    IN  IF lastEdit.id \in ClipIds(before.clips)
        THEN /\ lastEdit.status = 200
             /\ diskIndex.videos = before.videos
             /\ diskIndex.clips = SelectSeq(before.clips, LAMBDA c : c.id # lastEdit.id)
             /\ Len(diskIndex.clips) = Len(before.clips) - 1
        ELSE /\ lastEdit.status = 404
             /\ ~lastEdit.wrote
             /\ diskIndex = before

C34_OneOfThreeDeleted ==
  /\ lastEdit.route = "DELETE" /\ lastEdit.status = 200
  /\ Len(lastEdit.before.clips) = 3
  /\ ClipIds(diskIndex.clips) = {clipIdOf(1), clipIdOf(3)}
  /\ DOMAIN diskIndex.videos = DOMAIN lastEdit.before.videos
  /\ Cardinality(DOMAIN diskIndex.videos) = 2

C34_UnknownIdRefused ==
  /\ lastEdit.route = "DELETE" /\ lastEdit.found /\ lastEdit.status = 404
  /\ lastEdit.before.clips # <<>>
  /\ diskIndex = lastEdit.before

\* ---------------------------------------------------------------------------
\* analyze.js:163-309  the video loop when every awaited call settles
\* ---------------------------------------------------------------------------

\* the steps of the running process: each is the settling of the call the
\* process awaits, or synchronous code
RunStep ==
  \/ BeginVideo
  \/ UploadDone
  \/ ClassifyDone
  \/ MakeClip
  \/ CommitAndSave
  \/ Finally
  \/ Finish

\* every awaited remote call and media-tool call returns or fails
SpecRunFair == Spec /\ WF_vars(RunStep)

\* the position of each file of the run in the directory listing
ListingPos(f) == CHOOSE k \in 1..Len(DirListing) : DirListing[k] = f

\* the video at position i was saved by this run (analyze.js:289)
SavedInRun(i) == lastOk[videoFiles[i]].run = run

\* every video before position n ended in the save or in the catch block, not both
SettledBefore(n) ==
  \A i \in 1..(n - 1) : i \in started /\ (SavedInRun(i) <=> i \notin failed)

LoopInOrder ==
  /\ pc \in RunningPcs =>
       /\ \A i, j \in 1..Len(videoFiles) :
            i < j => ListingPos(videoFiles[i]) < ListingPos(videoFiles[j])
       /\ started = IF pc = "loop" THEN 1..(v - 1) ELSE 1..v
       /\ SettledBefore(v)
       /\ pc \notin {"loop", "finally"} => v \notin failed /\ ~SavedInRun(v)
  /\ (pc = "exited" /\ videoFiles # <<>>) =>
       /\ exitCode = 0
       /\ started = 1..Len(videoFiles)
       /\ SettledBefore(Len(videoFiles) + 1)

\* a video is started when the loop is at its position and it was not started before
StartsOnce ==
  (pc \in RunningPcs /\ pc' \in RunningPcs) =>
    /\ v' \in {v, v + 1}
    /\ started' # started => (pc = "loop" /\ v' = v /\ v \notin started /\ started' = started \cup {v})

\* C35: when every awaited call returns or fails, a run that has started ends; its videos are in directory-listing order, each is started once, at its turn, and each has ended in exactly one of the per-video save and the per-video catch block before the next one starts and before the run exits.
C35_RunTerminatesInOrder ==
  /\ [](LoopInOrder)
  /\ [][StartsOnce]_vars
  /\ (pc \in RunningPcs) ~> (pc \in {"exited", "killed"})

C35_OneFailedOneSaved ==
  /\ pc = "exited" /\ exitCode = 0
  /\ Len(videoFiles) = 2
  /\ started = {1, 2}
  /\ failed = {1}
  /\ SavedInRun(2) /\ ~SavedInRun(1)

\* the processing of the video is over: its finally block has run
VideoEnded(n) == n < rVideo \/ (n = rVideo /\ rPc \in {"loop", "finished"})

\* the file uploadVideo handed to main is the one a delete request is issued for
HeldFileReleased ==
  \A file \in rAsked : file \in rCreated

\* C36: at the end of each video's processing, a delete request has been issued for every remote file an upload attempt of that video created, the files of attempts that failed after the push (activation FAILED, timed out, bad status response) included.
C36_NoRemoteFileLeaked ==
  \A file \in rCreated : VideoEnded(file[1]) => file \in rAsked

C36_FileOfFailedAttemptLeft ==
  /\ rPc = "loop" /\ rVideo = 1
  /\ rCreated = {<<1, 1>>, <<1, 2>>}
  /\ rAsked = {<<1, 2>>}
  /\ inFlight = {}

\* ---------------------------------------------------------------------------
\* analyze.js:237-244, 268-285  one accepted segment of a video that is
\* processed without error: its clip's tags, and the taxonomy after learning
\* ---------------------------------------------------------------------------

\* a taxonomy and a segment that differ from empty ones in one learned field,
\* or in subjectDescriptors and beans
TaggedLearnInit ==
  /\ PipelineInit
  /\ UploadIdle
  /\ ClassifyIdle
  /\ IdleButFn
  /\ fnPc = "accepted"
  /\ \E known \in KnownLists :
       \/ \E i \in 1..Len(LearnedFields), val \in TagValues :
            fnArgs =
              [taxonomy |-> [f \in ListFields |->
                               IF f = LearnedFields[i].list THEN known ELSE <<>>],
               segment |-> [g \in TagSources |->
                              IF g = "shotType" THEN [kind |-> "string", value |-> "closeup"]
                              ELSE IF g = LearnedFields[i].from THEN val ELSE Undefined]]
       \/ \E sd \in TagValues, legacy \in TagValues :
            fnArgs =
              [taxonomy |-> [f \in ListFields |->
                               IF f = "subjectDescriptors" THEN known ELSE <<>>],
               segment |-> [g \in TagSources |->
                              IF g = "shotType" THEN [kind |-> "string", value |-> "closeup"]
                              ELSE IF g = "subjectDescriptors" THEN sd
                              ELSE IF g = "beans" THEN legacy ELSE Undefined]]
  /\ fnResult = <<>>

\* analyze.js:229-252, 268-285  the clip is built, the segment's terms are
\* merged into the taxonomy and the taxonomy is saved
TagAndLearn ==
  /\ fnPc = "accepted"
  /\ fnResult' = [tags |-> clipTags(fnArgs.segment),
                  taxonomy |-> learnTerms(fnArgs.taxonomy, <<fnArgs.segment>>)]
  /\ fnPc' = "saved"
  /\ UNCHANGED <<diskVars, procVars, histVars, upVars, clVars, restOfFn, fnArgs>>

TaggedLearnNext == TagAndLearn

SpecTaggedLearn == TaggedLearnInit /\ [][TaggedLearnNext]_vars

\* the list holds the term, whatever the casing
ListHas(list, term) ==
  \E k \in 1..Len(list) : toLowerCase(list[k]) = toLowerCase(term)

\* the tags of a field read from the segment's field of the same name are in
\* the saved list, the empty string apart
SameFieldTagsLearned ==
  fnPc = "saved" =>
    \A i \in 1..Len(LearnedFields) :
      LET p == LearnedFields[i]
          reported == toArray(fnArgs.segment[p.from])
      IN  \A k \in 1..Len(reported) :
            reported[k] # "" => ListHas(fnResult.taxonomy[p.list], reported[k])

\* C37: after a video was processed without error, every equipment, technique, product and subject-descriptor tag stored on its new clips is, case aside, in the corresponding list of the saved taxonomy, the subject descriptors reported under the legacy field name included.
C37_StoredTagsAreInTaxonomy ==
  fnPc = "saved" =>
    \A i \in 1..Len(LearnedFields) :
      LET p == LearnedFields[i]
          stored == fnResult.tags[p.from]
      IN  \A k \in 1..Len(stored) : ListHas(fnResult.taxonomy[p.list], stored[k])

C37_LegacyDescriptorNotLearned ==
  /\ fnPc = "saved"
  /\ fnArgs.segment.subjectDescriptors = Undefined
  /\ fnArgs.segment.beans = [kind |-> "string", value |-> "kettle"]
  /\ fnArgs.taxonomy.subjectDescriptors = <<>>
  /\ fnResult.tags.subjectDescriptors = <<"kettle">>
  /\ fnResult.taxonomy.subjectDescriptors = <<>>

\* the video entry is in the document
HasVideoEntry(idx, e) ==
  e[1] \in DOMAIN idx.videos /\ idx.videos[e[1]].filename = e[2]

\* C38: a video that ended in the per-video catch block contributes nothing to the catalog: neither its new video entry nor any of its new clips is in index.json at any later moment of the run, whichever step failed.
C38_FailedVideoAddsNothing ==
  pc \in RunningPcs \cup {"exited"} =>
    /\ \A e \in failedNew.videos : ~HasVideoEntry(diskIndex, e)
    /\ failedNew.clips \cap ClipIds(diskIndex.clips) = {}

C38_FailedVideoSavedByNext ==
  /\ pc = "finally" /\ v = 2
  /\ failed = {1}
  /\ SavedInRun(2)
  /\ \E e \in failedNew.videos : e[2] = "a.mp4" /\ HasVideoEntry(diskIndex, e)
  /\ failedNew.clips # {} /\ failedNew.clips \subseteq ClipIds(diskIndex.clips)

\* ---------------------------------------------------------------------------
\* the server's clip routes while an analysis of the same project runs
\* (server.js:209-238, 285-322; analyze.js:124-125, 288-290)
\* ---------------------------------------------------------------------------
\* one analysis run, with the server handling clip requests for the clips in
\* index.json while the run is in progress
ServedNext ==
  \/ Next /\ run' = 1
  \/ /\ pc \in RunningPcs
     /\ \E id \in ClipIds(diskIndex.clips) : DeleteClipRoute(TRUE, id)
  \/ /\ pc \in RunningPcs
     /\ \E id \in ClipIds(diskIndex.clips), body \in PatchBodies : PatchClipRoute(TRUE, id, body)

SpecServed == Init /\ [][ServedNext]_vars

\* C39: a clip deletion or clip edit that the server persisted while an analysis run of the project was in progress is still reflected in index.json after the run's later saves: the deleted clip is not there again, and the edited clip, while it is there, carries the edit.
C39_ServerUpdatesSurviveRun ==
  pc \in RunningPcs \cup {"exited"} =>
    /\ \A d \in srvDeleted : d[1] = run => d[2] \notin ClipIds(diskIndex.clips)
    /\ \A e \in srvEdited : e[1] = run =>
         \A k \in 1..Len(diskIndex.clips) :
           diskIndex.clips[k].id = e[2] => diskIndex.clips[k].userEdited

C39_DeletedClipWrittenBack ==
  /\ pc = "finally" /\ v = 2 /\ SavedInRun(2) /\ SavedInRun(1)
  /\ lastEdit.route = "DELETE" /\ lastEdit.status = 200
  /\ <<run, lastEdit.id>> \in srvDeleted
  /\ lastEdit.id \in ClipIds(diskIndex.clips)

\* the clip carries a verdict: one of its flags is set
Judged(clip) == clip.verified # "undefined" \/ clip.mismatch # "undefined"

\* C40: at every point of a verifyClips call, a clip that carries a verdict has verified = not mismatch (one flag true, the other false), and a clip the re-pick pass has marked matched stays matched until the call returns.
C40_VerifierFlagsConsistent ==
  /\ \A k \in 1..Len(vClips) :
       Judged(vClips[k]) =>
         \/ vClips[k].verified = "true" /\ vClips[k].mismatch = "false"
         \/ vClips[k].verified = "false" /\ vClips[k].mismatch = "true"
  /\ \A r \in rewritten :
       vClips[r.clip].verified = "true" /\ vClips[r.clip].mismatch = "false"

C40_MatchedClipRepickedAgain ==
  /\ vPc = "returned"
  /\ mismatches = <<1, 1>>
  /\ rewritten # {}
  /\ lastRepick.clip = 1 /\ lastRepick.response.kind = "error"
  /\ vBefore.clips[1].verified = "undefined"
  /\ vClips[1].verified = "true" /\ vClips[1].mismatch = "false"

====
